---- MODULE Spec2Model ----
(***************************************************************************)
(* Project Chimera source-hygiene tooling: the structural splitter         *)
(* (tier2_auto_refactor.py) and the banned-pattern scanners (CI/*.py).     *)
(*                                                                         *)
(* Text is modelled at token granularity: a line is a sequence of tokens   *)
(* (strings), a file is a sequence of lines.  line.count('{') counts the   *)
(* "{" tokens of the line, a regular expression is matched token by token, *)
(* and a substring test is a test for a contiguous run of tokens.          *)
(* Line and file indices keep the 0-based values of the Python source;     *)
(* At(lines, i) reads lines[i].                                            *)
(***************************************************************************)
EXTENDS Integers, Sequences, FiniteSets, TLC

\* ------------------------------------------------------------------ bounds

\* Number of consecutive runs of refactor_file on the same path.
MaxRuns == 2

\* ------------------------------------------------------- program constants

\* find_data_structure_start(lines, min_line=400)
MinLine == 400
\* "if i > 50:  # Main class should be near the top"
MainClassLimit == 50
\* "if line_count < 500:"
SizeThreshold == 500
\* Python None, as returned by find_data_structure_start
None == -1

\* ------------------------------------------------------------ token basics

Modifiers == {"public", "private", "internal", "protected"}
TypeKeywords == {"class", "struct", "enum"}

\* Tokens matched by \w+ in the line alphabets used below.
WordTokens ==
  Modifiers \cup TypeKeywords \cup
  {"static", "using", "namespace", "System", "Chimera", "Data", "Serializable",
   "Main", "Util", "A", "B", "C", "E", "x"}

IsSpace(t) == t = " "
IsWord(t) == t \in WordTokens

At(s, i) == s[i + 1]

Rep(l, n) == [i \in 1..n |-> l]

Min(S) == CHOOSE m \in S : \A k \in S : m <= k

\* str.count(tok)
Count(line, tok) == Cardinality({j \in 1..Len(line) : line[j] = tok})

\* str.lstrip() / str.rstrip() / str.strip()
RECURSIVE LStrip(_)
LStrip(s) == IF s # <<>> /\ IsSpace(Head(s)) THEN LStrip(Tail(s)) ELSE s

RECURSIVE RStrip(_)
RStrip(s) ==
  IF s # <<>> /\ IsSpace(s[Len(s)]) THEN RStrip(SubSeq(s, 1, Len(s) - 1)) ELSE s

Strip(s) == RStrip(LStrip(s))

\* Pairs <<p, t>> of distinct tokens where the text of p begins the text of t.
ProperPrefixes ==
  {<<"//", "///">>, <<"*", "*/">>,
   <<"Load", "LoadAll">>, <<"Log", "LogWarning">>, <<"Log", "LogError">>,
   <<"Find", "FindObjectOfType">>, <<"Find", "FindObjectsOfType">>,
   <<"FindObject", "FindObjectOfType">>, <<"FindObject", "FindObjectsOfType">>,
   <<"catch (system.exception", "catch (system.exception ex)">>}

\* p is a string prefix of token t (a token may begin with a shorter one).
TokPrefix(p, t) == p = t \/ <<p, t>> \in ProperPrefixes

\* str.startswith(needle) for a needle given as tokens.
StartsWith(s, needle) ==
  /\ Len(s) >= Len(needle)
  /\ \A j \in 1..Len(needle) :
       IF j = Len(needle) THEN TokPrefix(needle[j], s[j]) ELSE s[j] = needle[j]

\* First position at or after p holding no whitespace token (Len(s)+1 if none).
RECURSIVE SkipSpaces(_, _)
SkipSpaces(s, p) ==
  IF p <= Len(s) /\ IsSpace(s[p]) THEN SkipSpaces(s, p + 1) ELSE p

\* ----------------------------------------------------------- splitter, pure

\* line.count('{') - line.count('}')
BraceDelta(line) == Count(line, "{") - Count(line, "}")

\* re.match(r'(public|private|internal|protected)?\s*(class|struct|enum)\s+\w+', s)
\* tried with the optional modifier taken and, on failure, with it left out.
HeaderFrom(s, p) ==
  LET q == SkipSpaces(s, p) IN
    /\ q + 1 <= Len(s)
    /\ s[q] \in TypeKeywords
    /\ IsSpace(s[q + 1])
    /\ LET r == SkipSpaces(s, q + 1) IN r <= Len(s) /\ IsWord(s[r])

MatchHeader(s) ==
  \/ (s # <<>> /\ s[1] \in Modifiers /\ HeaderFrom(s, 2))
  \/ HeaderFrom(s, 1)

IsHeaderLine(line) == MatchHeader(Strip(line))

\* count_lines
count_lines(content) == Len(content)

\* Mutant of find_data_structure_start: the cutoff min_line is ignored and the
\* scan starts right after the main-class limit.
FindStartIgnoringCutoff(lines, min_line) ==
  LET hits == {i \in 0..(Len(lines) - 1) :
                 IsHeaderLine(At(lines, i)) /\ i > MainClassLimit}
  IN IF hits = {} THEN None ELSE Min(hits)

\* Mutant of find_data_structure_start: the scan starts one line too early.
FindStartOneLineEarly(lines, min_line) ==
  LET hits == {i \in (min_line - 1)..(Len(lines) - 1) :
                 IsHeaderLine(At(lines, i)) /\ i > MainClassLimit}
  IN IF hits = {} THEN None ELSE Min(hits)

\* find_data_structure_start: first i in range(min_line, len(lines)) whose line
\* matches the header signature and has i > 50.
find_data_structure_start(lines, min_line) ==
  LET hits == {i \in min_line..(Len(lines) - 1) :
                 IsHeaderLine(At(lines, i)) /\ i > MainClassLimit}
  IN IF hits = {} THEN None ELSE Min(hits)

\* Loop state of extract_data_structures.
ExtractInit ==
  [data_structures |-> <<>>, current_structure |-> <<>>,
   brace_count |-> 0, in_structure |-> FALSE]

\* Mutant of ExtractStep: the braces of the header line are not counted.
ExtractStepHeaderUncounted(st, line) ==
  IF IsHeaderLine(line) /\ ~st.in_structure
  THEN [st EXCEPT !.in_structure = TRUE,
                  !.current_structure = <<line>>,
                  !.brace_count = 0]
  ELSE IF st.in_structure
  THEN LET cur == Append(st.current_structure, line)
           bc == st.brace_count + BraceDelta(line)
       IN IF bc = 0
          THEN [data_structures |-> Append(st.data_structures, cur),
                current_structure |-> <<>>,
                brace_count |-> bc,
                in_structure |-> FALSE]
          ELSE [st EXCEPT !.current_structure = cur, !.brace_count = bc]
  ELSE st

\* Mutant of ExtractStep: a header line met during a capture starts a new one.
ExtractStepRestartOnHeader(st, line) ==
  IF IsHeaderLine(line)
  THEN [st EXCEPT !.in_structure = TRUE,
                  !.current_structure = <<line>>,
                  !.brace_count = BraceDelta(line)]
  ELSE IF st.in_structure
  THEN LET cur == Append(st.current_structure, line)
           bc == st.brace_count + BraceDelta(line)
       IN IF bc = 0
          THEN [data_structures |-> Append(st.data_structures, cur),
                current_structure |-> <<>>,
                brace_count |-> bc,
                in_structure |-> FALSE]
          ELSE [st EXCEPT !.current_structure = cur, !.brace_count = bc]
  ELSE st

\* One iteration of the for loop of extract_data_structures on `line`.
ExtractStep(st, line) ==
  IF IsHeaderLine(line) /\ ~st.in_structure
  THEN [st EXCEPT !.in_structure = TRUE,
                  !.current_structure = <<line>>,
                  !.brace_count = BraceDelta(line)]
  ELSE IF st.in_structure
  THEN LET cur == Append(st.current_structure, line)
           bc == st.brace_count + BraceDelta(line)
       IN IF bc = 0
          THEN [data_structures |-> Append(st.data_structures, cur),
                current_structure |-> <<>>,
                brace_count |-> bc,
                in_structure |-> FALSE]
          ELSE [st EXCEPT !.current_structure = cur, !.brace_count = bc]
  ELSE st

\* The for loop over range(lo, hi), run from loop state st: the iterations of
\* the first half, then those of the second half, in order.
RECURSIVE ExtractLoop(_, _, _, _)
ExtractLoop(lines, lo, hi, st) ==
  IF hi <= lo THEN st
  ELSE IF hi = lo + 1 THEN ExtractStep(st, At(lines, lo))
  ELSE LET mid == (lo + hi) \div 2
           half == ExtractLoop(lines, lo, mid, st)
       IN \* the first half is evaluated before the second half starts
          IF half.brace_count \in Int THEN ExtractLoop(lines, mid, hi, half)
          ELSE st

\* extract_data_structures(lines, start_line): each structure is kept as the
\* sequence of its lines (the source joins them into one string).
extract_data_structures(lines, start_line) ==
  IF start_line = None THEN <<>>
  ELSE ExtractLoop(lines, start_line, Len(lines), ExtractInit).data_structures

\* extract_namespace: re.search(r'namespace\s+([\w\.]+)', content) over the whole
\* text; the end of a line is whitespace, so \s+ may run across line ends.
IsNsTok(t) == IsWord(t) \/ t = "."

\* First position <<i, j>> (1-based line, token) at or after <<i, j>> that holds
\* no whitespace; j = Len(line) + 1 stands for the newline ending line i.
RECURSIVE SkipWsAcross(_, _, _)
SkipWsAcross(lines, i, j) ==
  IF i > Len(lines) THEN <<i, 1>>
  ELSE IF j > Len(lines[i]) THEN SkipWsAcross(lines, i + 1, 1)
  ELSE IF IsSpace(lines[i][j]) THEN SkipWsAcross(lines, i, j + 1)
  ELSE <<i, j>>

NsMatchAt(lines, i, j) ==
  /\ lines[i][j] = "namespace"
  /\ LET p == SkipWsAcross(lines, i, j + 1) IN
       /\ p # <<i, j + 1>>
       /\ p[1] <= Len(lines)
       /\ IsNsTok(lines[p[1]][p[2]])

\* The group ([\w\.]+): the longest run of name tokens from position j of `line`.
RECURSIVE NsRun(_, _)
NsRun(line, j) ==
  IF j <= Len(line) /\ IsNsTok(line[j]) THEN <<line[j]>> \o NsRun(line, j + 1)
  ELSE <<>>

DefaultNamespace == <<"ProjectChimera">>

extract_namespace(lines) ==
  LET rows == {i \in 1..Len(lines) :
                 \E j \in 1..Len(lines[i]) : NsMatchAt(lines, i, j)}
  IN IF rows = {} THEN DefaultNamespace
     ELSE LET i == Min(rows)
              j == Min({k \in 1..Len(lines[i]) : NsMatchAt(lines, i, k)})
              p == SkipWsAcross(lines, i, j + 1)
          IN NsRun(lines[p[1]], p[2])

\* extract_using_statements: the loop with its break.
RECURSIVE UsingLoop(_, _, _)
UsingLoop(lines, i, acc) ==
  IF i >= Len(lines) THEN acc
  ELSE LET line == At(lines, i)
           stripped == Strip(line)
       IN IF /\ StartsWith(stripped, <<"using", " ">>)
             /\ ~StartsWith(stripped, <<"using", " ", "(">>)
          THEN UsingLoop(lines, i + 1, Append(acc, RStrip(line)))
          ELSE IF /\ stripped # <<>>
                  /\ ~StartsWith(stripped, <<"//">>)
                  /\ ~StartsWith(stripped, <<"using">>)
          THEN acc
          ELSE UsingLoop(lines, i + 1, acc)

extract_using_statements(lines) == UsingLoop(lines, 0, <<>>)

\* Concatenation of a sequence of line sequences.
RECURSIVE Flatten(_)
Flatten(ss) == IF ss = <<>> THEN <<>> ELSE Head(ss) \o Flatten(Tail(ss))

\* create_data_structures_file: the text written to <stem>DataStructures.cs, as
\* lines.  Each structure is written followed by one more '\n' (an empty line).
DsFileContent(file_name, data_structures, namespace, using_statements) ==
  << <<"//", " ", "REFACTORED: Data Structures">>,
     <<"//", " ", "Extracted from", " ", file_name>>,
     <<>> >>
  \o using_statements
  \o << <<>>, <<"namespace", " ">> \o namespace, <<"{">> >>
  \o Flatten([k \in 1..Len(data_structures) |-> Append(data_structures[k], <<>>)])
  \o << <<"}">> >>

\* create_streamlined_coordinator: "data_structure_start if data_structure_start
\* else len(lines)" (None and 0 are both falsy).
CoordinatorEnd(lines, data_structure_start) ==
  IF data_structure_start # None /\ data_structure_start # 0
  THEN data_structure_start ELSE Len(lines)

\* Sum of BraceDelta over lines[lo..hi-1] (0-based, hi exclusive).
RECURSIVE SumDelta(_, _, _)
SumDelta(lines, lo, hi) ==
  IF hi <= lo THEN 0
  ELSE IF hi = lo + 1 THEN BraceDelta(At(lines, lo))
  ELSE LET mid == (lo + hi) \div 2
       IN SumDelta(lines, lo, mid) + SumDelta(lines, mid, hi)

\* brace_count of create_streamlined_coordinator
ResidualBraces(lines, end_line) == SumDelta(lines, 0, end_line)

\* The synthetic closing line "    }\n".
CloserLine == <<" ", " ", " ", " ", "}">>

\* Mutant of SyntheticClosers: one closing line too few.
SyntheticClosersOneShort(brace_count) ==
  IF brace_count > 0 THEN Rep(CloserLine, brace_count - 1) ELSE <<>>

\* "if brace_count > 0: for _ in range(brace_count): f.write('    }\n')"
SyntheticClosers(brace_count) ==
  IF brace_count > 0 THEN Rep(CloserLine, brace_count) ELSE <<>>

\* Retained lines written by create_streamlined_coordinator.
RetainedCount(lines, data_structure_start) ==
  LET end_line == CoordinatorEnd(lines, data_structure_start)
  IN IF end_line < Len(lines) THEN end_line ELSE Len(lines)

\* Mutant of CoordinatorContent: the header line at the start index is kept too.
CoordinatorContentThroughHeader(lines, data_structure_start) ==
  LET end_line == CoordinatorEnd(lines, data_structure_start)
  IN SubSeq(lines, 1, IF end_line < Len(lines) THEN end_line + 1 ELSE Len(lines))
     \o SyntheticClosers(ResidualBraces(lines, end_line))

\* Full text written to the original path by create_streamlined_coordinator.
CoordinatorContent(lines, data_structure_start) ==
  LET end_line == CoordinatorEnd(lines, data_structure_start)
  IN SubSeq(lines, 1, RetainedCount(lines, data_structure_start))
     \o SyntheticClosers(ResidualBraces(lines, end_line))

\* ------------------------------------------------------- scanners, pure

\* `needle in s`: the needle's tokens occur as a contiguous run; the text may
\* go on past the needle's last token inside a longer token.
Contains(s, needle) ==
  \E p \in 1..(Len(s) - Len(needle) + 1) :
    \A j \in 1..Len(needle) :
      IF j = Len(needle) THEN TokPrefix(needle[j], s[p + j - 1])
      ELSE s[p + j - 1] = needle[j]

\* Regular expressions, as sequences of elements over tokens.
Lit(t) == <<"lit", t>>
WsStar == <<"ws*", "">>
WsPlus == <<"ws+", "">>
\* (a|b|c)?
Opt(S) == <<"opt", S>>
\* [^t]+
NotPlus(t) == <<"not+", t>>

\* Elements k.. of `pat` match s from position p on.  A literal that ends the
\* pattern may stop inside a longer token.
RECURSIVE MatchFrom(_, _, _, _)
MatchFrom(pat, k, s, p) ==
  IF k > Len(pat) THEN TRUE
  ELSE LET e == pat[k] IN
    CASE e[1] = "lit" ->
           /\ p <= Len(s)
           /\ IF k = Len(pat) THEN TokPrefix(e[2], s[p]) ELSE s[p] = e[2]
           /\ MatchFrom(pat, k + 1, s, p + 1)
      [] e[1] = "ws*" ->
           \E q \in p..SkipSpaces(s, p) : MatchFrom(pat, k + 1, s, q)
      [] e[1] = "ws+" ->
           \E q \in (p + 1)..SkipSpaces(s, p) : MatchFrom(pat, k + 1, s, q)
      [] e[1] = "opt" ->
           \/ (p <= Len(s) /\ s[p] \in e[2] /\ MatchFrom(pat, k + 1, s, p + 1))
           \/ MatchFrom(pat, k + 1, s, p)
      [] e[1] = "not+" ->
           \E q \in (p + 1)..(Len(s) + 1) :
             /\ \A j \in p..(q - 1) : s[j] # e[2]
             /\ MatchFrom(pat, k + 1, s, q)

\* re.search(pattern, s)
Search(pat, s) == \E p \in 1..(Len(s) + 1) : MatchFrom(pat, 1, s, p)

\* "for pattern in patterns: if re.search(pattern, text): violations.append(...)":
\* the indices of the catalog patterns recorded for one line, in catalog order.
PatternLoop(patterns, text) ==
  SelectSeq([k \in 1..Len(patterns) |-> k], LAMBDA k : Search(patterns[k], text))

Scanners ==
  {"debug_log", "findobjectoftype", "resources_load", "update_method",
   "anti_patterns"}

GenericOpen == <<Lit("<"), NotPlus(">"), Lit(">"), WsStar, Lit("(")>>
Call == <<WsStar, Lit("(")>>

\* violation_patterns of each enforce_* script, FORBIDDEN_PATTERNS of
\* run_quality_gates.py.
DebugLogPatterns ==
  << <<Lit("Debug"), Lit("."), Lit("Log")>> \o Call,
     <<Lit("Debug"), Lit("."), Lit("LogWarning")>> \o Call,
     <<Lit("Debug"), Lit("."), Lit("LogError")>> \o Call,
     <<Lit("UnityEngine"), Lit("."), Lit("Debug"), Lit("."), Lit("Log")>> \o Call >>

FindObjectOfTypePatterns ==
  << <<Lit("FindObjectOfType")>> \o GenericOpen,
     <<Lit("FindObjectsOfType")>> \o GenericOpen,
     <<Lit("GameObject"), Lit("."), Lit("FindObjectOfType")>> \o GenericOpen,
     <<Lit("UnityEngine"), Lit("."), Lit("Object"), Lit("."),
       Lit("FindObjectOfType")>> \o GenericOpen,
     <<Lit("Object"), Lit("."), Lit("FindObjectOfType")>> \o GenericOpen >>

ResourcesLoadPatterns ==
  << <<Lit("Resources"), Lit("."), Lit("Load")>> \o GenericOpen,
     <<Lit("Resources"), Lit("."), Lit("Load")>> \o Call,
     <<Lit("Resources"), Lit("."), Lit("LoadAll")>> \o GenericOpen,
     <<Lit("Resources"), Lit("."), Lit("LoadAll")>> \o Call >>

UpdateTail ==
  <<Lit("void"), WsPlus, Lit("Update"), WsStar, Lit("("), WsStar, Lit(")")>>

UpdateMethodPatterns ==
  << <<Opt({"private", "protected", "public"}), WsStar>> \o UpdateTail,
     UpdateTail >>

FORBIDDEN_PATTERNS ==
  << <<Lit("FindObjectOfType"), Lit("<")>>,
     <<Lit("FindObjectsOfType"), Lit("<")>>,
     <<Lit("GameObject"), Lit("."), Lit("Find"), Lit("(")>>,
     <<Lit("Resources"), Lit("."), Lit("Load")>>,
     <<Lit("Debug"), Lit("."), Lit("Log"), Lit("(")>>,
     <<Lit("Debug"), Lit("."), Lit("LogWarning"), Lit("(")>>,
     <<Lit("Debug"), Lit("."), Lit("LogError"), Lit("(")>>,
     <<Lit("."), Lit("GetField"), Lit("(")>>,
     <<Lit("."), Lit("GetProperty"), Lit("(")>>,
     <<Lit("."), Lit("GetMethod"), Lit("(")>>,
     <<Lit("typeof"), Lit("("), NotPlus(")"), Lit(")"), Lit("."),
       Lit("GetProperty")>>,
     <<Lit("Activator"), Lit("."), Lit("CreateInstance")>>,
     <<Lit("Assembly"), Lit("."), Lit("Load")>> >>

PatternsOf(s) ==
  CASE s = "debug_log" -> DebugLogPatterns
    [] s = "findobjectoftype" -> FindObjectOfTypePatterns
    [] s = "resources_load" -> ResourcesLoadPatterns
    [] s = "update_method" -> UpdateMethodPatterns
    [] s = "anti_patterns" -> FORBIDDEN_PATTERNS

\* A path is <<directory, file name>>.  Pairs <<needle, part>> of distinct
\* strings where the needle occurs inside the path part.
ProperSubstrings ==
  {<<"Testing/", "/Testing/">>, <<"Tests/", "/Tests/">>, <<"Editor/", "/Editor/">>,
   <<"Testing", "/Testing/">>, <<"Editor", "/Editor/">>,
   <<".backup", "Plant.backup.cs">>,
   <<"AntiPatternMigrationTool", "AntiPatternMigrationTool.cs">>,
   <<"DebugLogMigrationTool", "DebugLogMigrationTool.cs">>,
   <<"BatchMigration", "BatchMigrationScript.cs">>,
   <<"MigrationScript", "BatchMigrationScript.cs">>,
   <<"ServiceContainer", "ServiceContainerBootstrapper.cs">>,
   <<"AudioLoadingService", "AudioLoadingService.cs">>,
   <<"DataManager", "DataManager.cs">>,
   <<"DataManager", "SaveDataManager.cs">>,
   <<"DataManager.cs", "SaveDataManager.cs">>,
   <<"UIProgressBarManager", "UIProgressBarManager.cs">>}

\* `needle in str(file_path)`
PathContains(path, needle) ==
  \E k \in 1..Len(path) : path[k] = needle \/ <<needle, path[k]>> \in ProperSubstrings

exempted_files(s) ==
  CASE s = "debug_log" ->
         {"ChimeraLogger.cs", "ChimeraScriptableObject.cs", "SharedLogger.cs",
          "QualityGates.cs", "QualityGateRunner.cs", "AntiPatternMigrationTool.cs",
          "DebugLogMigrationTool.cs", "DebugLogAutoMigrationTool.cs",
          "BatchMigrationScript.cs"}
    [] s = "findobjectoftype" ->
         {"QualityGates.cs", "AntiPatternMigrationTool.cs",
          "ServiceContainerBootstrapper.cs", "DefaultLightingService.cs",
          "FindObjectOfTypeMigrationTest.cs"}
    [] s = "resources_load" ->
         {"DefaultAssetManager.cs", "IAssetManager.cs", "AssetManagerTest.cs",
          "QualityGates.cs", "AntiPatternMigrationTool.cs", "AudioLoadingService.cs",
          "DataManager.cs", "ServiceContainerBootstrapper.cs",
          "AddressablesMigrationPhase1.cs", "AddressablePrefabResolver.cs",
          "AddressablesInfrastructure.cs", "AddressablesAssetManager.cs",
          "SchematicManager.cs", "SpeedTreeAssetManagementService.cs",
          "enforce_resources_load_ban.py"}
    [] s = "update_method" ->
         {"UpdateOrchestrator.cs", "ITickable.cs", "TickableExamples.cs",
          "UpdateOrchestratorTest.cs", "QualityGates.cs",
          "AntiPatternMigrationTool.cs", "UpdateMethodMigrator.cs",
          "enforce_update_method_ban.py"}
    \* check_anti_patterns: the lists whose match skips every line of the file
    [] s = "anti_patterns" ->
         {"QualityGateRunner.cs", "QualityGates.cs", "run_quality_gates.py",
          "AntiPatternMigrationTool", "DebugLogMigrationTool", "BatchMigration",
          "MigrationScript",
          "ChimeraLogger.cs", "ChimeraScriptableObject.cs", "SharedLogger.cs"}
    \* check_file_size_violations
    [] s = "file_size" ->
         {"QualityGates.cs", "AntiPatternMigrationTool.cs",
          "ServiceContainerBootstrapper.cs", "ServiceContainerBuilder.cs"}

exempted_dirs(s) ==
  CASE s = "debug_log" -> {"/Shared/", "/CI/", "/Editor/"}
    [] s = "update_method" -> {"/Interfaces/", "/Documentation/", "/Examples/"}
    [] s = "anti_patterns" -> {"/Shared/"}
    [] OTHER -> {}

\* "Skip backup files (and test files)"; find_cs_files for check_anti_patterns.
skipped_paths(s) ==
  CASE s = "debug_log" -> {".backup"}
    [] s = "findobjectoftype" -> {".backup"}
    [] s = "resources_load" -> {".backup", "Testing/", "Tests/", "Editor/"}
    [] s = "update_method" -> {".backup", "Testing/", "Tests/", "Editor/"}
    [] s = "anti_patterns" -> {"Testing", "Editor"}

\* Mutant of FileExempt: only the exempted_files list is consulted.
FileExemptFilesOnly(s, path) ==
  IF s = "anti_patterns"
  THEN \E e \in skipped_paths(s) : PathContains(path, e)
  ELSE \E e \in exempted_files(s) : PathContains(path, e)

\* The per-file `continue` of the enforce_* scripts; for check_anti_patterns the
\* filter of find_cs_files (its other path tests are made line by line).
FileExempt(s, path) ==
  IF s = "anti_patterns"
  THEN \E e \in skipped_paths(s) : PathContains(path, e)
  ELSE \/ \E e \in exempted_files(s) : PathContains(path, e)
       \/ \E e \in exempted_dirs(s) : PathContains(path, e)
       \/ \E e \in skipped_paths(s) : PathContains(path, e)

\* str.lower(), token by token.
LowerTok(t) ==
  CASE t \in {"Fallback to Resources", "FALLBACK TO RESOURCES"} ->
         "fallback to resources"
    [] t \in {"AddressablesAssetManager not available",
              "ADDRESSABLESASSETMANAGER NOT AVAILABLE"} ->
         "addressablesassetmanager not available"
    [] t \in {"Fallback mechanism", "FALLBACK MECHANISM"} -> "fallback mechanism"
    [] t \in {"if (assetManager == null)", "IF (ASSETMANAGER == NULL)"} ->
         "if (assetmanager == null)"
    [] t \in {"catch (System.Exception", "CATCH (SYSTEM.EXCEPTION"} ->
         "catch (system.exception"
    [] t = "catch (System.Exception ex)" -> "catch (system.exception ex)"
    [] t \in {"Backup loading method", "BACKUP LOADING METHOD"} ->
         "backup loading method"
    [] t = "Resources" -> "resources"
    [] t = "Load" -> "load"
    [] t = "LoadAll" -> "loadall"
    [] t = "T" -> "t"
    [] OTHER -> t

Lower(s) == [j \in 1..Len(s) |-> LowerTok(s[j])]

\* context_lines = 5
ContextLines == 5

\* The indicator list of _is_legitimate_fallback, as written in the source.
FallbackIndicators ==
  {"fallback to resources", "addressablesassetmanager not available",
   "fallback mechanism", "if (assetManager == null)", "catch (system.exception",
   "backup loading method"}

Max2(a, b) == IF a >= b THEN a ELSE b
Min2(a, b) == IF a <= b THEN a ELSE b

\* _is_legitimate_fallback(lines, line_idx, line_content)
IsLegitimateFallback(lines, line_idx) ==
  LET start_idx == Max2(0, line_idx - ContextLines) IN
    \E i \in start_idx..(Min2(Len(lines), line_idx + ContextLines) - 1) :
      LET context_line == Lower(Strip(At(lines, i))) IN
        \E indicator \in FallbackIndicators : Contains(context_line, <<indicator>>)

\* Mutant of EnforceLineSkipped: lines that start with '*' are scanned.
EnforceLineSkippedStarScanned(s, lines, line_idx) ==
  LET line_content == Strip(At(lines, line_idx)) IN
    \/ StartsWith(line_content, <<"//">>)
    \/ s = "debug_log" /\
         \/ Contains(line_content, <<"\"", "Debug", ".", "Log">>)
         \/ Contains(line_content, <<"@", "\"", "Debug", "\\", ".", "Log">>)
    \/ s = "findobjectoftype" /\
         \/ Contains(line_content, <<"\"", "FindObjectOfType">>)
         \/ StartsWith(line_content, <<"[">>)
    \/ s = "resources_load" /\
         \/ Contains(line_content, <<"\"", "Resources", ".", "Load">>)
         \/ StartsWith(line_content, <<"[">>)
         \/ Contains(line_content, <<"Fallback to Resources">>)
         \/ Contains(line_content, <<"AddressablesAssetManager not available">>)
         \/ IsLegitimateFallback(lines, line_idx)
    \/ s = "update_method" /\
         \/ Contains(line_content, <<"\"", "Update", "(">>)
         \/ StartsWith(line_content, <<"[">>)
         \/ Contains(line_content, <<"ITickable">>)

\* The per-line `continue` tests of the four enforce_* scripts.
EnforceLineSkipped(s, lines, line_idx) ==
  LET line_content == Strip(At(lines, line_idx)) IN
    \/ StartsWith(line_content, <<"//">>)
    \/ StartsWith(line_content, <<"*">>)
    \/ s = "debug_log" /\
         \/ Contains(line_content, <<"\"", "Debug", ".", "Log">>)
         \/ Contains(line_content, <<"@", "\"", "Debug", "\\", ".", "Log">>)
    \/ s = "findobjectoftype" /\
         \/ Contains(line_content, <<"\"", "FindObjectOfType">>)
         \/ StartsWith(line_content, <<"[">>)
    \/ s = "resources_load" /\
         \/ Contains(line_content, <<"\"", "Resources", ".", "Load">>)
         \/ StartsWith(line_content, <<"[">>)
         \/ Contains(line_content, <<"Fallback to Resources">>)
         \/ Contains(line_content, <<"AddressablesAssetManager not available">>)
         \/ IsLegitimateFallback(lines, line_idx)
    \/ s = "update_method" /\
         \/ Contains(line_content, <<"\"", "Update", "(">>)
         \/ StartsWith(line_content, <<"[">>)
         \/ Contains(line_content, <<"ITickable">>)

IsCommentTok(t) == TokPrefix("//", t)

\* line_content.split('//')[0]: the tokens before the first comment marker.
RECURSIVE BeforeComment(_)
BeforeComment(s) ==
  IF s = <<>> \/ IsCommentTok(Head(s)) THEN <<>>
  ELSE <<Head(s)>> \o BeforeComment(Tail(s))

\* check_anti_patterns: the text tested against FORBIDDEN_PATTERNS.
AntiCodePart(line) ==
  LET line_content == Strip(line) IN
    IF \E j \in 1..Len(line_content) : IsCommentTok(line_content[j])
    THEN Strip(BeforeComment(line_content))
    ELSE line_content

AnyIn(path, names) == \E n \in names : PathContains(path, n)

\* check_anti_patterns: the `continue` tests made for each line, in order.
AntiLineSkipped(path, line) ==
  LET first == Strip(line)
      line_content == AntiCodePart(line)
  IN
    \/ StartsWith(first, <<"//">>) \/ StartsWith(first, <<"///">>)
         \/ StartsWith(first, <<"*">>)
    \/ Contains(line_content, <<"\"", "FindObjectOfType">>)
         \/ Contains(line_content, <<"\"", "Resources", ".", "Load">>)
         \/ Contains(line_content, <<"\"", "Debug", ".", "Log">>)
    \/ Contains(line_content, <<"UnityEngine", ".", "Object", ".", "FindObject">>)
    \/ Contains(line_content, <<"ChimeraLogger", ".", "Log">>)
         \/ Contains(line_content, <<"UnityEngine", ".", "Debug", ".", "Log">>)
    \/ AnyIn(path, {"QualityGateRunner.cs", "QualityGates.cs", "run_quality_gates.py"})
    \/ AnyIn(path, {"AntiPatternMigrationTool", "DebugLogMigrationTool",
                    "BatchMigration", "MigrationScript"})
    \/ /\ AnyIn(path, {"ServiceContainer", "ServiceAdvancedFeatures",
                       "TypedServiceRegistration", "/Core/"})
       /\ \/ Contains(line_content, <<".", "GetMethod", "(">>)
          \/ Contains(line_content, <<"Activator", ".", "CreateInstance">>)
    \/ /\ \/ AnyIn(path, {"AudioLoadingService", "DataManager", "/Interfaces/"})
          \/ Contains(line_content, <<"//", " ", "Legacy">>)
          \/ Contains(line_content, <<"//", " ", "MIGRATION">>)
       /\ Contains(line_content, <<"Resources", ".", "Load">>)
    \/ AnyIn(path, {"ChimeraLogger.cs", "ChimeraScriptableObject.cs",
                    "SharedLogger.cs", "/Shared/"})
    \/ /\ AnyIn(path, {"UIProgressBarManager", "UINotificationManager"})
       /\ Contains(line_content, <<"GameObject", ".", "Find">>)

\* The violations one scanner appends for line number line_num (1-based) of a
\* file: one record per matching pattern.  The enforce_* scripts search the raw
\* line, check_anti_patterns the code part.
LineViolations(s, path, lines, line_num) ==
  LET line == lines[line_num]
      skipped == IF s = "anti_patterns" THEN AntiLineSkipped(path, line)
                 ELSE EnforceLineSkipped(s, lines, line_num - 1)
      text == IF s = "anti_patterns" THEN AntiCodePart(line) ELSE line
      content == IF s = "anti_patterns" THEN AntiCodePart(line) ELSE Strip(line)
      hits == PatternLoop(PatternsOf(s), text)
  IN IF skipped THEN <<>>
     ELSE [k \in 1..Len(hits) |->
             [file |-> path, line |-> line_num, content |-> content,
              pattern |-> hits[k]]]

\* ------------------------------------------------- file size limits, pure

\* A path given to the size check is the sequence of its '/'-separated parts,
\* e.g. <<"Assets", "ProjectChimera", "Core", "Plant.cs">>.

\* str.lower() of a path part.
LowerPart(t) ==
  CASE t \in {"Core", "CORE"} -> "core"
    [] t \in {"Systems", "SYSTEMS"} -> "systems"
    [] t \in {"Data", "DATA"} -> "data"
    [] t \in {"UI", "Ui"} -> "ui"
    [] t \in {"Testing", "TESTING"} -> "testing"
    [] t \in {"Tests", "TESTS"} -> "tests"
    [] t \in {"Editor", "EDITOR"} -> "editor"
    [] t = "Assets" -> "assets"
    [] t = "ProjectChimera" -> "projectchimera"
    [] t = "Plants" -> "plants"
    [] t = "Plant.cs" -> "plant.cs"
    [] OTHER -> t

\* "'/name/' in path_str" for path_str = '/'.join(path_parts).lower(): a part
\* with a '/' on both sides, so neither the first nor the last part.
MarkerIn(path_parts, name) ==
  \E k \in 2..(Len(path_parts) - 1) : LowerPart(path_parts[k]) = name

\* Mutant of determine_system_type: the Testing test is made first.
DetermineSystemTypeTestingFirst(path_parts) ==
  IF MarkerIn(path_parts, "testing") \/ MarkerIn(path_parts, "tests") THEN "Testing"
  ELSE IF MarkerIn(path_parts, "core") THEN "Core"
  ELSE IF MarkerIn(path_parts, "systems") THEN "Systems"
  ELSE IF MarkerIn(path_parts, "data") THEN "Data"
  ELSE IF MarkerIn(path_parts, "ui") THEN "UI"
  ELSE IF MarkerIn(path_parts, "editor") THEN "Editor"
  ELSE "Unknown"

\* determine_system_type(path_parts)
determine_system_type(path_parts) ==
  IF MarkerIn(path_parts, "core") THEN "Core"
  ELSE IF MarkerIn(path_parts, "systems") THEN "Systems"
  ELSE IF MarkerIn(path_parts, "data") THEN "Data"
  ELSE IF MarkerIn(path_parts, "ui") THEN "UI"
  ELSE IF MarkerIn(path_parts, "testing") \/ MarkerIn(path_parts, "tests")
       THEN "Testing"
  ELSE IF MarkerIn(path_parts, "editor") THEN "Editor"
  ELSE "Unknown"

\* system_limits
system_limits ==
  [t \in {"Core", "Systems", "Data", "UI", "Testing", "Editor"} |->
     IF t = "Testing" THEN 600 ELSE 500]

\* The default of system_limits.get(system_type, 500)
DefaultLimit == 500

\* limit = system_limits.get(system_type, 500)
LimitOf(system_type) ==
  IF system_type \in DOMAIN system_limits THEN system_limits[system_type]
  ELSE DefaultLimit

\* Mutant of calculate_severity: the tier tests are strict.
CalculateSeverityStrict(line_count, limit) ==
  LET excess == line_count - limit IN
    IF excess > limit THEN "CRITICAL"
    ELSE IF 2 * excess > limit THEN "HIGH"
    ELSE IF 4 * excess > limit THEN "MEDIUM"
    ELSE "LOW"

\* calculate_severity(line_count, limit) for limit > 0.  excess_ratio is the
\* correctly rounded quotient excess / limit; 1.0, 0.5 and 0.25 are exact
\* floating-point values and rounding is monotone, so "excess_ratio >= 0.25"
\* holds exactly when 4 * excess >= limit, and likewise for 0.5 and 1.0.
calculate_severity(line_count, limit) ==
  LET excess == line_count - limit IN
    IF excess >= limit THEN "CRITICAL"
    ELSE IF 2 * excess >= limit THEN "HIGH"
    ELSE IF 4 * excess >= limit THEN "MEDIUM"
    ELSE "LOW"

\* "if '.backup' in str(file_path)" and "if any(exempt in str(file_path) ...)"
SizeFileSkipped(path_parts) ==
  \/ PathContains(path_parts, ".backup")
  \/ \E e \in exempted_files("file_size") : PathContains(path_parts, e)

\* Mutant of SizeCheck: a file at its limit is a violation too.
SizeCheckAtLimit(path_parts, line_count) ==
  LET system_type == determine_system_type(path_parts)
      limit == LimitOf(system_type)
  IN IF line_count >= limit
     THEN << [file |-> path_parts, lines |-> line_count, limit |-> limit,
              excess |-> line_count - limit, system |-> system_type,
              severity |-> calculate_severity(line_count, limit)] >>
     ELSE <<>>

\* Lines 54-67 of check_file_size_violations: the violations appended for one
\* file that was read.
SizeCheck(path_parts, line_count) ==
  LET system_type == determine_system_type(path_parts)
      limit == LimitOf(system_type)
  IN IF line_count > limit
     THEN << [file |-> path_parts, lines |-> line_count, limit |-> limit,
              excess |-> line_count - limit, system |-> system_type,
              severity |-> calculate_severity(line_count, limit)] >>
     ELSE <<>>

\* "elif len(violations) > 110"
ViolationCeiling == 110

\* critical_count of main
CriticalCount(vs) ==
  Cardinality({k \in 1..Len(vs) : vs[k].severity = "CRITICAL"})

\* Mutant of ExitStatus: more violations than the ceiling block as well.
ExitStatusCeilingBlocks(vs) ==
  IF vs = <<>> THEN 0
  ELSE IF CriticalCount(vs) > 0 THEN 1
  ELSE IF Len(vs) > ViolationCeiling THEN 1
  ELSE 0

\* The value returned by main for the violations list vs.
ExitStatus(vs) ==
  IF vs = <<>> THEN 0
  ELSE IF CriticalCount(vs) > 0 THEN 1
  ELSE IF Len(vs) > ViolationCeiling THEN 0
  ELSE 0

\* ------------------------------------------------------- input files (Init)

LCode == <<"x", ";">>
LBlank == <<>>
LOpen == <<"{">>
LClose == <<"}">>
LAttr == <<"[", "Serializable", "]">>
\* A statement whose string literal holds a closing brace:  x = "}";
LStr == <<"x", "=", "\"", "}", "\"", ";">>
LUsing == <<"using", " ", "System", ";">>
\* using System; // {
LUsingBrace == <<"using", " ", "System", ";", " ", "//", " ", "{">>
LNamespace == <<"namespace", " ", "Chimera", ".", "Data">>
Hdr(kw, id) == <<" ", " ", "public", " ", kw, " ", id>>
HdrOpen(kw, id) == Hdr(kw, id) \o <<" ", "{">>
\* public enum E { x }
HdrOneLine(kw, id) == Hdr(kw, id) \o <<" ", "{", " ", "x", " ", "}">>
\* A declaration of n lines: header with its opening brace, body, closing brace.
Decl(kw, id, n) == <<HdrOpen(kw, id)>> \o Rep(LCode, n - 2) \o <<LClose>>

\* The file name of the path handed to refactor_file.
FileName == "Widget.cs"

HeadShapes == {"none", "namespace", "string", "usingbrace"}
FileHead(h) ==
  CASE h = "none" -> <<>>
    [] h = "namespace" ->
         <<LUsing, LBlank, LNamespace, LOpen, HdrOpen("class", "Main")>>
    [] h = "string" -> <<LStr>>
    [] h = "usingbrace" -> <<LUsingBrace, HdrOpen("class", "Main")>>

TailShapes == {"one", "two", "open", "nohdr", "trailing", "oneline"}
\* The last n lines of a file, by shape.
FileTail(t, n) ==
  CASE t = "one" ->
         <<Hdr("struct", "A"), LOpen>> \o Rep(LCode, n - 3) \o <<LClose>>
    [] t = "two" ->
         <<HdrOpen("struct", "A")>> \o Rep(LCode, n - 9)
         \o <<LClose, LBlank, LAttr, Hdr("enum", "E"), LOpen, LCode, LClose, LClose>>
    [] t = "open" -> <<Hdr("struct", "A"), LOpen>> \o Rep(LCode, n - 2)
    [] t = "nohdr" -> Rep(LCode, n)
    [] t = "trailing" ->
         <<HdrOpen("struct", "A"), LCode, LClose, Hdr("class", "B"), LOpen>>
         \o Rep(LCode, n - 5)
    [] t = "oneline" ->
         <<HdrOneLine("enum", "E")>> \o Rep(LCode, n - 4)
         \o <<HdrOpen("struct", "C"), LCode, LClose>>

\* Index of the first line of the tail, and total line counts, around the
\* cutoff and the size threshold of the source.
TailStarts == {MinLine - 1, MinLine, MinLine + 1}
TotalLens == {SizeThreshold - 1, SizeThreshold, SizeThreshold + 1}

BuildFile(h, start, t, total) ==
  FileHead(h) \o Rep(LCode, start - Len(FileHead(h))) \o FileTail(t, total - start)

\* The 620-line file: a primary class on lines 1-390, structs on lines 395-430,
\* 431-460 and 461-600, an enum on lines 601-620.
ExampleFile ==
  Decl("class", "Main", 390) \o Rep(LBlank, 4)
  \o Decl("struct", "A", 36) \o Decl("struct", "B", 30)
  \o Decl("struct", "C", 140) \o Decl("enum", "E", 20)

\* A file whose first declaration starts past the size threshold, so that the
\* coordinator left by a split still has SizeThreshold lines or more.
LongFile == BuildFile("none", SizeThreshold + 10, "one", SizeThreshold + 30)

InputFiles ==
  {BuildFile(h, st, t, n) : h \in HeadShapes, st \in TailStarts,
                            t \in TailShapes, n \in TotalLens}
  \cup {ExampleFile, LongFile}

Absent == [exists |-> FALSE, data |-> <<>>]
Present(content) == [exists |-> TRUE, data |-> content]

\* --------------------------------------------- refactor_file, as one call

\* The files of one entry of FILES_TO_REFACTOR: the file at the path, its
\* backup, its declarations file, and whether the file can be opened and read.
Entry(o, b, d, r) == [orig |-> o, backup |-> b, dsfile |-> d, readable |-> r]

Returned(res, why, f) == [result |-> res, reason |-> why, files |-> f]

\* refactor_file(filepath) from call to return: the result ("True", "False",
\* or "error" for an exception, which open() raises in count_lines for a file
\* that cannot be read), the message of a False result, and the files after.
RefactorFile(f) ==
  IF ~f.orig.exists THEN Returned("False", "not found", f)
  ELSE IF ~f.readable THEN Returned("error", "", f)
  ELSE IF count_lines(f.orig.data) < SizeThreshold
       THEN Returned("False", "too small", f)
  ELSE IF f.backup.exists THEN Returned("False", "already split", f)
  ELSE LET content == f.orig.data
           start == find_data_structure_start(content, MinLine)
           structures == extract_data_structures(content, start)
       IN IF start = None THEN Returned("False", "no structure found", f)
          ELSE IF structures = <<>> THEN Returned("False", "none extracted", f)
          ELSE Returned("True", "",
                 Entry(Present(CoordinatorContent(content, start)),
                       Present(content),
                       Present(DsFileContent(FileName, structures,
                                             extract_namespace(content),
                                             extract_using_statements(content))),
                       f.readable))

\* ------------------------------------------------- refactor_file, as steps

VARIABLES
  orig,                  \* the file at <path>
  backup,                \* the file at <path>.backup
  dsfile,                \* the file at <stem>DataStructures.cs
  pc,                    \* position in refactor_file
  result,                \* "none", "True", "False" or "error" (an exception)
  reason,                \* the message printed with a False result
  line_count, lines, namespace, using_statements,
  data_structure_start, data_structures,   \* locals of refactor_file
  written,               \* lines of the coordinator written so far
  run,                   \* number of runs started
  pre,                   \* content of <path> before the first run
  snap,                  \* the three files as they were when this run began
  truncations,           \* how many times <path> was opened for writing
  scanner,               \* which check_* function is running
  scan_path,             \* file_path of the file being scanned
  scan_lines,            \* its lines, as read by readlines()
  line_num,              \* number of lines of the file processed so far
  violations,            \* the violations list
  scan_pc                \* position in the scanner's loop over one file

VARIABLES
  cs_files,              \* the files the size check goes through, in order
  file_idx,              \* how many of them it has gone through
  size_violations,       \* the violations list of check_file_size_violations
  size_pc,               \* position in the size check
  exit_status,           \* the value returned by its main (None before)
  sev_call,              \* arguments of a direct call of calculate_severity
  severity,              \* the value that call returned
  batch_files,           \* the files of FILES_TO_REFACTOR, in list order
  batch_idx,             \* how many of them main has taken from the list
  batch_pc,              \* position in main ("off", "loop", "done")
  refactored_count, skipped_count,   \* locals of main
  outcomes               \* per file processed: list index and what happened

sizeVars == <<cs_files, file_idx, size_violations, size_pc, exit_status,
              sev_call, severity>>
batchVars == <<batch_files, batch_idx, batch_pc, refactored_count, skipped_count,
               outcomes>>

\* The size check is not running.
SizeOff ==
  /\ cs_files = <<>>
  /\ file_idx = 0
  /\ size_violations = <<>>
  /\ size_pc = "off"
  /\ exit_status = None
  /\ sev_call = <<>>
  /\ severity = ""

\* The batch main is not running.
BatchOff ==
  /\ batch_files = <<>>
  /\ batch_idx = 0
  /\ batch_pc = "off"
  /\ refactored_count = 0
  /\ skipped_count = 0
  /\ outcomes = <<>>

fsVars == <<orig, backup, dsfile>>
localVars == <<line_count, lines, namespace, using_statements,
               data_structure_start, data_structures, written>>
scanVars == <<scanner, scan_path, scan_lines, line_num, violations, scan_pc>>
splitVars == <<orig, backup, dsfile, pc, result, reason, line_count, lines,
               namespace, using_statements, data_structure_start,
               data_structures, written, run, pre, snap, truncations>>
vars == <<splitVars, scanVars, sizeVars, batchVars>>

\* No scanner is running.
ScanOff ==
  /\ scanner = "none"
  /\ scan_path = <<>>
  /\ scan_lines = <<>>
  /\ line_num = 0
  /\ violations = <<>>
  /\ scan_pc = "off"

NoLocals ==
  /\ line_count = 0
  /\ lines = <<>>
  /\ namespace = <<>>
  /\ using_statements = <<>>
  /\ data_structure_start = None
  /\ data_structures = <<>>
  /\ written = 0

Init ==
  /\ orig \in {Present(f) : f \in InputFiles} \cup {Absent}
  /\ backup \in {Absent, Present(<<LCode>>)}
  /\ dsfile \in {Absent, Present(<<LCode>>)}
  /\ pc = "idle"
  /\ result = "none"
  /\ reason = ""
  /\ NoLocals
  /\ run = 0
  /\ pre = orig
  /\ snap = [orig |-> orig, backup |-> backup, dsfile |-> dsfile]
  /\ truncations = 0
  /\ ScanOff
  /\ SizeOff
  /\ BatchOff

\* "return False" after printing `why`.
Skip(why) ==
  /\ pc' = "done"
  /\ result' = "False"
  /\ reason' = why

Goto(l) ==
  /\ pc' = l
  /\ UNCHANGED <<result, reason>>

\* A call of refactor_file(filepath) begins (main's loop, or a later run).
Begin ==
  /\ pc \in {"idle", "done"}
  /\ run < MaxRuns
  /\ run' = run + 1
  /\ snap' = [orig |-> orig, backup |-> backup, dsfile |-> dsfile]
  /\ pc' = "exists"
  /\ result' = "none"
  /\ reason' = ""
  /\ line_count' = 0
  /\ lines' = <<>>
  /\ namespace' = <<>>
  /\ using_statements' = <<>>
  /\ data_structure_start' = None
  /\ data_structures' = <<>>
  /\ written' = 0
  /\ UNCHANGED <<fsVars, pre, truncations>>
  /\ UNCHANGED <<scanVars, sizeVars, batchVars>>

\* "if not os.path.exists(filepath)"
CheckExists ==
  /\ pc = "exists"
  /\ IF ~orig.exists THEN Skip("not found") ELSE Goto("count")
  /\ UNCHANGED <<fsVars, localVars, run, pre, snap, truncations>>
  /\ UNCHANGED <<scanVars, sizeVars, batchVars>>

\* "line_count = count_lines(filepath); if line_count < 500"
CheckLineCount ==
  /\ pc = "count"
  /\ line_count' = count_lines(orig.data)
  /\ IF line_count' < SizeThreshold THEN Skip("too small") ELSE Goto("backup")
  /\ UNCHANGED <<fsVars, lines, namespace, using_statements, data_structure_start,
                 data_structures, written, run, pre, snap, truncations>>
  /\ UNCHANGED <<scanVars, sizeVars, batchVars>>

\* Mutant of CheckBackup: an existing backup does not stop the run.
CheckBackupIgnored ==
  /\ pc = "backup"
  /\ Goto("read")
  /\ UNCHANGED <<fsVars, localVars, run, pre, snap, truncations>>
  /\ UNCHANGED <<scanVars, sizeVars, batchVars>>

\* "if os.path.exists(backup_path)"
CheckBackup ==
  /\ pc = "backup"
  /\ IF backup.exists THEN Skip("already split") ELSE Goto("read")
  /\ UNCHANGED <<fsVars, localVars, run, pre, snap, truncations>>
  /\ UNCHANGED <<scanVars, sizeVars, batchVars>>

\* Mutant of ReadFile: the backup is made as soon as the file has been read,
\* before the structure checks.
ReadFileThenBackup ==
  /\ pc = "read"
  /\ lines' = orig.data
  /\ namespace' = extract_namespace(lines')
  /\ using_statements' = extract_using_statements(lines')
  /\ backup' = Present(orig.data)
  /\ Goto("find")
  /\ UNCHANGED <<orig, dsfile, line_count, data_structure_start, data_structures,
                 written, run, pre, snap, truncations>>
  /\ UNCHANGED <<scanVars, sizeVars, batchVars>>

\* "lines = f.readlines()" and the metadata extracted from them.
ReadFile ==
  /\ pc = "read"
  /\ lines' = orig.data
  /\ namespace' = extract_namespace(lines')
  /\ using_statements' = extract_using_statements(lines')
  /\ Goto("find")
  /\ UNCHANGED <<fsVars, line_count, data_structure_start, data_structures,
                 written, run, pre, snap, truncations>>
  /\ UNCHANGED <<scanVars, sizeVars, batchVars>>

\* "data_structure_start = find_data_structure_start(lines)"
FindStart ==
  /\ pc = "find"
  /\ data_structure_start' = find_data_structure_start(lines, MinLine)
  /\ IF data_structure_start' = None
     THEN Skip("no structure found") ELSE Goto("extract")
  /\ UNCHANGED <<fsVars, line_count, lines, namespace, using_statements,
                 data_structures, written, run, pre, snap, truncations>>
  /\ UNCHANGED <<scanVars, sizeVars, batchVars>>

\* "data_structures = extract_data_structures(lines, data_structure_start)"
Extract ==
  /\ pc = "extract"
  /\ data_structures' = extract_data_structures(lines, data_structure_start)
  /\ IF data_structures' = <<>>
     THEN Skip("none extracted") ELSE Goto("ds_open")
  /\ UNCHANGED <<fsVars, line_count, lines, namespace, using_statements,
                 data_structure_start, written, run, pre, snap, truncations>>
  /\ UNCHANGED <<scanVars, sizeVars, batchVars>>

\* create_data_structures_file: open(output_file, 'w') creates or truncates.
DsOpen ==
  /\ pc = "ds_open"
  /\ dsfile' = Present(<<>>)
  /\ Goto("ds_write")
  /\ UNCHANGED <<orig, backup, localVars, run, pre, snap, truncations>>
  /\ UNCHANGED <<scanVars, sizeVars, batchVars>>

\* create_data_structures_file: the writes, flushed when the file is closed.
DsWrite ==
  /\ pc = "ds_write"
  /\ dsfile' = Present(DsFileContent(FileName, data_structures, namespace,
                                     using_statements))
  /\ Goto("copy_open")
  /\ UNCHANGED <<orig, backup, localVars, run, pre, snap, truncations>>
  /\ UNCHANGED <<scanVars, sizeVars, batchVars>>

\* shutil.copy2(original_file, backup_file): the destination is opened.
CopyOpen ==
  /\ pc = "copy_open"
  /\ backup' = Present(<<>>)
  /\ Goto("copy_data")
  /\ UNCHANGED <<orig, dsfile, localVars, run, pre, snap, truncations>>
  /\ UNCHANGED <<scanVars, sizeVars, batchVars>>

\* Mutant of CopyData: the rewrite starts before the copy has been written.
CopyDataNotWritten ==
  /\ pc = "copy_data"
  /\ Goto("coord_open")
  /\ UNCHANGED <<fsVars, localVars, run, pre, snap, truncations>>
  /\ UNCHANGED <<scanVars, sizeVars, batchVars>>

\* shutil.copy2: the content of the original is copied.
CopyData ==
  /\ pc = "copy_data"
  /\ backup' = Present(orig.data)
  /\ Goto("coord_open")
  /\ UNCHANGED <<orig, dsfile, localVars, run, pre, snap, truncations>>
  /\ UNCHANGED <<scanVars, sizeVars, batchVars>>

\* create_streamlined_coordinator: open(original_file, 'w') truncates the file.
CoordOpen ==
  /\ pc = "coord_open"
  /\ orig' = Present(<<>>)
  /\ truncations' = truncations + 1
  /\ written' = 0
  /\ Goto("coord_write")
  /\ UNCHANGED <<backup, dsfile, line_count, lines, namespace, using_statements,
                 data_structure_start, data_structures, run, pre, snap>>
  /\ UNCHANGED <<scanVars, sizeVars, batchVars>>

\* Points at which the buffered writes of the coordinator may have reached disk.
FlushPoints(total) == {1, total \div 2, total}

\* create_streamlined_coordinator: retained lines, then synthetic closers.
CoordWrite ==
  /\ pc = "coord_write"
  /\ LET content == CoordinatorContent(lines, data_structure_start) IN
       /\ written < Len(content)
       /\ \E k \in FlushPoints(Len(content)) :
            /\ k > written
            /\ written' = k
            /\ orig' = Present(SubSeq(content, 1, k))
  /\ Goto("coord_write")
  /\ UNCHANGED <<backup, dsfile, line_count, lines, namespace, using_statements,
                 data_structure_start, data_structures, run, pre, snap,
                 truncations>>
  /\ UNCHANGED <<scanVars, sizeVars, batchVars>>

\* The coordinator is closed; "return True".
Finish ==
  /\ pc = "coord_write"
  /\ written = Len(CoordinatorContent(lines, data_structure_start))
  /\ pc' = "done"
  /\ result' = "True"
  /\ reason' = ""
  /\ UNCHANGED <<fsVars, localVars, run, pre, snap, truncations>>
  /\ UNCHANGED <<scanVars, sizeVars, batchVars>>

\* Mutant of Interrupt: the backup is removed when a run is interrupted.
InterruptRemovesBackup ==
  /\ pc \notin {"idle", "done"}
  /\ pc' = "done"
  /\ result' = "error"
  /\ reason' = ""
  /\ backup' = Absent
  /\ UNCHANGED <<orig, dsfile, localVars, run, pre, snap, truncations>>
  /\ UNCHANGED <<scanVars, sizeVars, batchVars>>

\* An exception (I/O error) or a crash anywhere inside refactor_file.
Interrupt ==
  /\ pc \notin {"idle", "done"}
  /\ pc' = "done"
  /\ result' = "error"
  /\ reason' = ""
  /\ UNCHANGED <<fsVars, localVars, run, pre, snap, truncations>>
  /\ UNCHANGED <<scanVars, sizeVars, batchVars>>

Next ==
  \/ Begin
  \/ CheckExists
  \/ CheckLineCount
  \/ CheckBackup
  \/ ReadFile
  \/ FindStart
  \/ Extract
  \/ DsOpen
  \/ DsWrite
  \/ CopyOpen
  \/ CopyData
  \/ CoordOpen
  \/ CoordWrite
  \/ Finish
  \/ Interrupt

Spec == Init /\ [][Next]_vars

\* ------------------------------------------------ pure functions, all inputs

\* Bound on the number of lines of the small inputs.
MaxLines == 4

LineKinds ==
  {Hdr("struct", "A"), HdrOpen("struct", "B"), HdrOneLine("enum", "E"),
   LOpen, LClose, LCode}

SmallInputs == UNION {[1..n -> LineKinds] : n \in 0..MaxLines}

\* extract_data_structures and create_streamlined_coordinator applied to any
\* small line sequence and any start index.
InitPure ==
  /\ lines \in SmallInputs
  /\ data_structure_start \in 0..Len(lines)
  /\ orig = Present(lines)
  /\ backup = Absent
  /\ dsfile = Absent
  /\ pc = "pure"
  /\ result = "none"
  /\ reason = ""
  /\ line_count = Len(lines)
  /\ namespace = extract_namespace(lines)
  /\ using_statements = extract_using_statements(lines)
  /\ data_structures = <<>>
  /\ written = 0
  /\ run = 1
  /\ pre = orig
  /\ snap = [orig |-> orig, backup |-> backup, dsfile |-> dsfile]
  /\ truncations = 0
  /\ ScanOff
  /\ SizeOff
  /\ BatchOff

\* Lines 189-202 of refactor_file in one step: extraction, declarations file,
\* backup and coordinator, for the given start index.
SplitAt ==
  /\ pc = "pure"
  /\ data_structures' = extract_data_structures(lines, data_structure_start)
  /\ dsfile' = Present(DsFileContent(FileName, data_structures', namespace,
                                     using_statements))
  /\ backup' = Present(orig.data)
  /\ orig' = Present(CoordinatorContent(lines, data_structure_start))
  /\ truncations' = truncations + 1
  /\ written' = Len(orig'.data)
  /\ pc' = "done"
  /\ result' = "True"
  /\ UNCHANGED <<reason, line_count, lines, namespace, using_statements,
                 data_structure_start, run, pre, snap>>
  /\ UNCHANGED <<scanVars, sizeVars, batchVars>>

NextPure == SplitAt

SpecPure == InitPure /\ [][NextPure]_vars

\* ------------------------------------------------------ scanners, as steps

\* Bound on the number of lines of the small scanned files.
MaxScanLines == 2
\* Bound on the number of plain lines between a context line and a candidate.
MaxGap == 6

CodeDebugLog == <<"Debug", ".", "Log", "(", "\"", "msg", "\"", ")", ";">>
CodeUnityDebugLog == <<"UnityEngine", ".">> \o CodeDebugLog
CodeFind == <<"x", "=", "FindObjectOfType", "<", "T", ">", "(", ")", ";">>
CodeGameObjectFind ==
  <<"x", "=", "GameObject", ".", "FindObjectOfType", "<", "T", ">", "(", ")", ";">>
CodeLoadGeneric ==
  <<"x", "=", "Resources", ".", "Load", "<", "T", ">", "(", "p", ")", ";">>
CodeLoad == <<"x", "=", "Resources", ".", "Load", "(", "p", ")", ";">>
CodeLoadAll == <<"x", "=", "Resources", ".", "LoadAll", "<", "T", ">", "(", "p", ")", ";">>
CodeUpdate == <<" ", " ", "void", " ", "Update", "(", ")">>
CodePrivateUpdate == <<"private", " ", "void", " ", "Update", "(", ")">>
CodeGetProperty == <<"x", "=", "typeof", "(", "T", ")", ".", "GetProperty", "(", "p", ")", ";">>
\* // old: <code>
Commented(code) == <<" ", "//", " ", "old", ":", " ">> \o code
\* /// <code>
DocCommented(code) == <<" ", "///", " ">> \o code
\*  * <code>
Starred(code) == <<" ", "*", " ">> \o code
\* x; // <code>
Trailing(code) == <<"x", ";", " ", "//", " ">> \o code
\* <code> // Legacy
WithLegacy(code) == code \o <<" ", "//", " ", "Legacy">>
\* <code> // MIGRATION
WithMigration(code) == code \o <<" ", "//", " ", "MIGRATION">>
\* s = "<code>";
Quoted(code) == <<"s", "=", "\"">> \o code \o <<"\"", ";">>

\* Lines of the small scanned files, per scanner.
ScanKinds(s) ==
  CASE s = "debug_log" ->
         {CodeDebugLog, CodeUnityDebugLog, Commented(CodeDebugLog),
          DocCommented(CodeDebugLog), Starred(CodeDebugLog),
          Trailing(CodeDebugLog), Quoted(<<"Debug", ".", "Log", "(">>), LCode}
    [] s = "findobjectoftype" ->
         {CodeFind, CodeGameObjectFind, Commented(CodeFind),
          DocCommented(CodeFind), Starred(CodeFind), Trailing(CodeFind),
          LAttr, LCode}
    [] s = "resources_load" ->
         {CodeLoadGeneric, CodeLoad, CodeLoadAll, Commented(CodeLoadGeneric),
          DocCommented(CodeLoad), Starred(CodeLoadAll),
          Trailing(CodeLoad), LCode}
    [] s = "update_method" ->
         {CodeUpdate, CodePrivateUpdate, Commented(CodeUpdate),
          DocCommented(CodeUpdate), Starred(CodePrivateUpdate),
          Trailing(CodeUpdate), LCode}
    [] s = "anti_patterns" ->
         {CodeGetProperty, CodeDebugLog, CodeUnityDebugLog, CodeLoadGeneric,
          WithLegacy(CodeLoadGeneric), WithMigration(CodeLoad), Commented(CodeLoad),
          DocCommented(CodeGetProperty), Starred(CodeDebugLog), Trailing(CodeLoad)}

SmallFiles(s) == UNION {[1..n -> ScanKinds(s)] : n \in 1..MaxScanLines}

\* The marker phrases in the letter-casings a source file may use.
MarkerCasings ==
  {"fallback to resources", "Fallback to Resources", "FALLBACK TO RESOURCES",
   "addressablesassetmanager not available",
   "AddressablesAssetManager not available",
   "ADDRESSABLESASSETMANAGER NOT AVAILABLE",
   "fallback mechanism", "Fallback mechanism", "FALLBACK MECHANISM",
   "if (assetmanager == null)", "if (assetManager == null)",
   "IF (ASSETMANAGER == NULL)",
   "catch (system.exception", "catch (System.Exception ex)",
   "CATCH (SYSTEM.EXCEPTION",
   "backup loading method", "Backup loading method", "BACKUP LOADING METHOD"}

MarkerLine(phrase) == <<" ", " ", phrase>>
MarkerLines == {MarkerLine(m) : m \in MarkerCasings}
CandidateLines == {CodeLoadGeneric, CodeLoad, CodeLoadAll}

\* Files for the context check of check_resources_load_violations: a marker
\* line and a Resources.Load line, in either order, `gap` plain lines apart,
\* after `pad` plain lines.
ContextFile(pad, first, gap, second) ==
  Rep(LCode, pad) \o <<first>> \o Rep(LCode, gap) \o <<second>>

ContextFiles ==
  {ContextFile(pad, m, gap, c) :
     pad \in 0..1, m \in MarkerLines, gap \in 0..MaxGap, c \in CandidateLines}
  \cup
  {ContextFile(pad, c, gap, m) :
     pad \in 0..1, m \in MarkerLines, gap \in 0..MaxGap, c \in CandidateLines}

DirParts ==
  {"/Systems/", "/Shared/", "/CI/", "/Editor/", "/Testing/", "/Tests/",
   "/Interfaces/", "/Documentation/", "/Examples/", "/Core/"}

PlainPath == <<"/Systems/", "Plant.cs">>

\* A path part in which the exemption entry e occurs.
PartFor(e) ==
  IF \E t \in {q[2] : q \in ProperSubstrings} : <<e, t>> \in ProperSubstrings
  THEN CHOOSE t \in {q[2] : q \in ProperSubstrings} : <<e, t>> \in ProperSubstrings
  ELSE e

PathFor(e) ==
  IF PartFor(e) \in DirParts THEN <<PartFor(e), "Plant.cs">>
  ELSE <<"/Systems/", PartFor(e)>>

ExemptionEntries(s) == exempted_files(s) \cup exempted_dirs(s) \cup skipped_paths(s)

ScanPaths(s) ==
  {PathFor(e) : e \in ExemptionEntries(s)}
  \cup {PlainPath, <<"/Core/", "Plant.cs">>, <<"/Systems/", "SaveDataManager.cs">>}

SplitterOff ==
  /\ orig = Absent
  /\ backup = Absent
  /\ dsfile = Absent
  /\ pc = "off"
  /\ result = "none"
  /\ reason = ""
  /\ NoLocals
  /\ run = 0
  /\ pre = Absent
  /\ snap = [orig |-> Absent, backup |-> Absent, dsfile |-> Absent]
  /\ truncations = 0

\* One scanner is about to process one file of cs_files.
InitScan ==
  /\ SplitterOff
  /\ SizeOff
  /\ BatchOff
  /\ scanner \in Scanners
  /\ \/ (scan_path \in ScanPaths(scanner) /\ scan_lines \in SmallFiles(scanner))
     \/ (scanner = "resources_load" /\ scan_path = PlainPath
           /\ scan_lines \in ContextFiles)
  /\ line_num = 0
  /\ violations = <<>>
  /\ scan_pc = "file"

\* "for file_path in cs_files": the exemption tests, then readlines().
OpenFile ==
  /\ scan_pc = "file"
  /\ scan_pc' = IF FileExempt(scanner, scan_path) THEN "done" ELSE "lines"
  /\ UNCHANGED <<scanner, scan_path, scan_lines, line_num, violations>>
  /\ UNCHANGED <<splitVars, sizeVars, batchVars>>

\* One iteration of "for line_num, line in enumerate(lines, 1)".
ScanLine ==
  /\ scan_pc = "lines"
  /\ line_num < Len(scan_lines)
  /\ line_num' = line_num + 1
  /\ violations' =
       violations \o LineViolations(scanner, scan_path, scan_lines, line_num')
  /\ UNCHANGED <<scanner, scan_path, scan_lines, scan_pc>>
  /\ UNCHANGED <<splitVars, sizeVars, batchVars>>

\* The loop over the lines of the file ends.
CloseFile ==
  /\ scan_pc = "lines"
  /\ line_num = Len(scan_lines)
  /\ scan_pc' = "done"
  /\ UNCHANGED <<scanner, scan_path, scan_lines, line_num, violations>>
  /\ UNCHANGED <<splitVars, sizeVars, batchVars>>

NextScan ==
  \/ OpenFile
  \/ ScanLine
  \/ CloseFile

SpecScan == InitScan /\ [][NextScan]_vars

\* --------------------------------------------------- size check, as steps

\* Bound on the length of the short file lists.
MaxSizeFiles == 2
\* Bound on the limit in direct calls of calculate_severity.
MaxBudget == 12

SizeDirs ==
  {"Core", "Systems", "Data", "UI", "Testing", "Tests", "Editor", "Plants",
   "CORE", "TESTS"}

\* Paths below Assets/ProjectChimera with one or two directories, paths whose
\* first part is a directory name, and paths the check leaves out.
SizePaths ==
  {<<"Assets", "ProjectChimera", d, "Plant.cs">> : d \in SizeDirs}
  \cup {<<"Assets", "ProjectChimera", d[1], d[2], "Plant.cs">> :
          d \in SizeDirs \X SizeDirs}
  \cup {<<d, "Plant.cs">> : d \in {"Core", "Testing"}}
  \cup {<<"Assets", "Systems", f>> :
          f \in {"QualityGates.cs", "ServiceContainerBuilder.cs",
                 "Plant.backup.cs"}}

\* Line counts around the limits and around the severity boundaries.
CountsAround(limit) ==
  {limit - 1, limit, limit + 1,
   limit + limit \div 4 - 1, limit + limit \div 4,
   limit + limit \div 2 - 1, limit + limit \div 2,
   2 * limit - 1, 2 * limit}

SizeCounts == {0} \cup CountsAround(500) \cup CountsAround(600)

SizeFile(p, n, r) == [path |-> p, line_count |-> n, readable |-> r]

PlainSizePath == <<"Assets", "ProjectChimera", "Plants", "Plant.cs">>
LowFile == SizeFile(PlainSizePath, 501, TRUE)
HighFile == SizeFile(PlainSizePath, 750, TRUE)
CriticalFile == SizeFile(PlainSizePath, 1000, TRUE)

PairKinds ==
  {SizeFile(PlainSizePath, 500, TRUE), LowFile, CriticalFile,
   SizeFile(<<"Assets", "ProjectChimera", "Tests", "Plant.cs">>, 601, TRUE),
   SizeFile(<<"Assets", "Systems", "QualityGates.cs">>, 1000, TRUE),
   SizeFile(PlainSizePath, 1000, FALSE)}

\* File lists with as many non-critical violations as the ceiling, or one more,
\* alone and with one critical file.
LongLists ==
  UNION {{Rep(LowFile, n), Rep(LowFile, n - 1) \o <<HighFile>>,
          Rep(LowFile, n) \o <<CriticalFile>>,
          <<CriticalFile>> \o Rep(LowFile, n)} :
           n \in {ViolationCeiling, ViolationCeiling + 1}}

SizeLists ==
  {<<SizeFile(p, n, TRUE)>> : p \in SizePaths, n \in SizeCounts}
  \cup UNION {[1..n -> PairKinds] : n \in 0..MaxSizeFiles}
  \cup LongLists

\* The sort key of main: (severity == 'CRITICAL', excess).
KeyGreater(a, b) ==
  \/ a.severity = "CRITICAL" /\ b.severity # "CRITICAL"
  \/ /\ (a.severity = "CRITICAL") = (b.severity = "CRITICAL")
     /\ a.excess > b.excess

KeyEqual(a, b) ==
  /\ (a.severity = "CRITICAL") = (b.severity = "CRITICAL")
  /\ a.excess = b.excess

\* violations.sort(key=..., reverse=True): descending by key, elements with
\* equal keys keep their order.
SortViolations(vs) ==
  LET Rank(i) == 1 + Cardinality({j \in 1..Len(vs) : KeyGreater(vs[j], vs[i])})
                   + Cardinality({j \in 1..(i - 1) : KeyEqual(vs[j], vs[i])})
  IN [r \in 1..Len(vs) |-> vs[CHOOSE i \in 1..Len(vs) : Rank(i) = r]]

\* The size check is about to go through cs_files, or calculate_severity is
\* about to be called with a limit of 1..MaxBudget and a count above it.
InitSize ==
  /\ SplitterOff
  /\ ScanOff
  /\ BatchOff
  /\ \/ /\ size_pc = "files"
        /\ cs_files \in SizeLists
        /\ sev_call = <<>>
     \/ /\ size_pc = "call"
        /\ cs_files = <<>>
        /\ \E b \in 1..MaxBudget : \E c \in (b + 1)..(2 * b + 2) :
             sev_call = <<c, b>>
  /\ file_idx = 0
  /\ size_violations = <<>>
  /\ exit_status = None
  /\ severity = ""

\* One iteration of "for file_path in cs_files" of check_file_size_violations;
\* a file that cannot be read raises inside the try and adds nothing.
SizeCheckFile ==
  /\ size_pc = "files"
  /\ file_idx < Len(cs_files)
  /\ file_idx' = file_idx + 1
  /\ LET f == cs_files[file_idx'] IN
       size_violations' =
         IF SizeFileSkipped(f.path) \/ ~f.readable THEN size_violations
         ELSE size_violations \o SizeCheck(f.path, f.line_count)
  /\ UNCHANGED <<cs_files, size_pc, exit_status, sev_call, severity>>
  /\ UNCHANGED <<splitVars, scanVars, batchVars>>

\* The loop is over: main sorts the violations it got and returns its status.
SizeMain ==
  /\ size_pc = "files"
  /\ file_idx = Len(cs_files)
  /\ size_violations' = SortViolations(size_violations)
  /\ exit_status' = ExitStatus(size_violations)
  /\ size_pc' = "done"
  /\ UNCHANGED <<cs_files, file_idx, sev_call, severity>>
  /\ UNCHANGED <<splitVars, scanVars, batchVars>>

\* calculate_severity(line_count, limit), called on its own.
CalcSeverity ==
  /\ size_pc = "call"
  /\ severity' = calculate_severity(sev_call[1], sev_call[2])
  /\ size_pc' = "done"
  /\ UNCHANGED <<cs_files, file_idx, size_violations, exit_status, sev_call>>
  /\ UNCHANGED <<splitVars, scanVars, batchVars>>

NextSize ==
  \/ SizeCheckFile
  \/ SizeMain
  \/ CalcSeverity

SpecSize == InitSize /\ [][NextSize]_vars

\* ------------------------------------------------------ batch main, as steps

\* Bound on the length of the work list.
MaxBatch == 2

SplittableFile == BuildFile("none", MinLine, "one", SizeThreshold)

\* One entry for each way refactor_file can end.
BatchKinds ==
  {Entry(Absent, Absent, Absent, TRUE),
   Entry(Present(BuildFile("none", MinLine, "one", SizeThreshold - 1)),
         Absent, Absent, TRUE),
   Entry(Present(SplittableFile), Present(<<LCode>>), Absent, TRUE),
   Entry(Present(BuildFile("none", MinLine, "nohdr", SizeThreshold)),
         Absent, Absent, TRUE),
   Entry(Present(BuildFile("none", MinLine, "open", SizeThreshold)),
         Absent, Absent, TRUE),
   Entry(Present(SplittableFile), Absent, Absent, TRUE),
   Entry(Present(SplittableFile), Absent, Absent, FALSE)}

\* main is about to go through FILES_TO_REFACTOR.
InitBatch ==
  /\ SplitterOff
  /\ ScanOff
  /\ SizeOff
  /\ batch_files \in UNION {[1..n -> BatchKinds] : n \in 0..MaxBatch}
  /\ batch_idx = 0
  /\ batch_pc = "loop"
  /\ refactored_count = 0
  /\ skipped_count = 0
  /\ outcomes = <<>>

\* Mutant of ProcessFile: a file whose processing raised is not counted.
ProcessFileErrorUncounted ==
  /\ batch_pc = "loop"
  /\ batch_idx < Len(batch_files)
  /\ batch_idx' = batch_idx + 1
  /\ LET f == batch_files[batch_idx']
         r == RefactorFile(f)
     IN /\ batch_files' = [batch_files EXCEPT ![batch_idx'] = r.files]
        /\ refactored_count' =
             IF r.result = "True" THEN refactored_count + 1 ELSE refactored_count
        /\ skipped_count' =
             IF r.result = "False" THEN skipped_count + 1 ELSE skipped_count
        /\ outcomes' = Append(outcomes,
             [index |-> batch_idx', before |-> f, result |-> r.result,
              reason |-> r.reason])
  /\ UNCHANGED batch_pc
  /\ UNCHANGED <<splitVars, scanVars, sizeVars>>

\* One iteration of "for filepath in FILES_TO_REFACTOR": the call of
\* refactor_file inside try, and the count that follows its result.
ProcessFile ==
  /\ batch_pc = "loop"
  /\ batch_idx < Len(batch_files)
  /\ batch_idx' = batch_idx + 1
  /\ LET f == batch_files[batch_idx']
         r == RefactorFile(f)
     IN /\ batch_files' = [batch_files EXCEPT ![batch_idx'] = r.files]
        /\ refactored_count' =
             IF r.result = "True" THEN refactored_count + 1 ELSE refactored_count
        /\ skipped_count' =
             IF r.result = "True" THEN skipped_count ELSE skipped_count + 1
        /\ outcomes' = Append(outcomes,
             [index |-> batch_idx', before |-> f, result |-> r.result,
              reason |-> r.reason])
  /\ UNCHANGED batch_pc
  /\ UNCHANGED <<splitVars, scanVars, sizeVars>>

\* The loop is over; main prints the counts and returns.
BatchDone ==
  /\ batch_pc = "loop"
  /\ batch_idx = Len(batch_files)
  /\ batch_pc' = "done"
  /\ UNCHANGED <<batch_files, batch_idx, refactored_count, skipped_count,
                 outcomes>>
  /\ UNCHANGED <<splitVars, scanVars, sizeVars>>

NextBatch ==
  \/ ProcessFile
  \/ BatchDone

SpecBatch == InitBatch /\ [][NextBatch]_vars

\* ------------------------------------------------------------------ claims

\* Number of '{' minus number of '}' over a sequence of lines.
Balance(ls) == SumDelta(ls, 0, Len(ls))

\* Total number of lines of a sequence of structures.
RECURSIVE TotalLines(_)
TotalLines(ss) == IF ss = <<>> THEN 0 ELSE Len(Head(ss)) + TotalLines(Tail(ss))

Split == pc = "done" /\ result = "True"
Skipped == pc = "done" /\ result = "False"
FilesAsAtStart == orig = snap.orig /\ backup = snap.backup /\ dsfile = snap.dsfile

\* C1: in every reachable state, also after an interruption at any step, if the
\* original differs from its pre-split content then the backup exists and holds
\* exactly the pre-split content.
C1_BackupBeforeRewrite ==
  orig # pre => (backup.exists /\ backup.data = pre.data)

\* C1 witness: a run interrupted while the coordinator was being written.
C1_Witness ==
  /\ pc = "done" /\ result = "error"
  /\ orig.data # pre.data /\ orig.data # <<>>
  /\ backup = pre

\* C2 as stated: a run on an existing file that starts with a backup in place
\* and is not interrupted ends in the skip "already split", with no file written.
C2_AlreadySplitReason ==
  (pc = "done" /\ result # "error" /\ snap.backup.exists /\ snap.orig.exists)
    => (result = "False" /\ reason = "already split" /\ FilesAsAtStart)

\* The skip reason of a run that starts with the files of `s`.
ReasonWithBackup(s) ==
  IF ~s.orig.exists THEN "not found"
  ELSE IF Len(s.orig.data) < SizeThreshold THEN "too small"
  ELSE "already split"

\* C2 amended: a run that starts with a backup in place never splits and writes
\* no file; it reports "not found" for a missing original, "too small" below the
\* threshold and "already split" otherwise; the original is opened for writing
\* at most once over all runs.
C2_BackupMeansNoRewrite ==
  /\ truncations <= 1
  /\ (pc = "done" /\ snap.backup.exists) =>
       /\ result \in {"False", "error"}
       /\ FilesAsAtStart
       /\ result = "False" => reason = ReasonWithBackup(snap)

\* C2 witness: the run after a successful split, skipped as "already split".
C2_Witness ==
  /\ run = 2 /\ truncations = 1 /\ Skipped /\ reason = "already split"
  /\ orig.data # pre.data

\* C3: a run that ends in a skip has left the original, the backup and the
\* declarations file exactly as they were when it began.
C3_SkipLeavesFiles == Skipped => FilesAsAtStart

\* C3 witness: a header was found past the cutoff but no declaration completed.
C3_Witness == Skipped /\ reason = "none extracted" /\ run = 1 /\ orig.exists

HeaderLinesOf(content) == SelectSeq(content, IsHeaderLine)

\* C4 as stated: the 620-line example yields the four types A, B, C, E in the
\* declarations file and a coordinator of lines 1-394 plus synthetic closers.
C4_ExampleFourTypes ==
  (Split /\ pre.data = ExampleFile /\ snap.orig = pre) =>
    /\ HeaderLinesOf(dsfile.data) =
         <<HdrOpen("struct", "A"), HdrOpen("struct", "B"),
           HdrOpen("struct", "C"), HdrOpen("enum", "E")>>
    /\ \E n \in 0..Len(orig.data) :
         orig.data = SubSeq(ExampleFile, 1, 394) \o Rep(CloserLine, n)

\* C4 amended: the 620-line example yields the three types that start at or
\* after line 401 (B, C, E on lines 431-460, 461-600, 601-620), in that order,
\* and a coordinator of original lines 1-430 followed only by synthetic closers
\* (none here, the retained lines being balanced).
C4_ExampleThreeTypes ==
  (Split /\ pre.data = ExampleFile /\ snap.orig = pre) =>
    /\ data_structures =
         <<Decl("struct", "B", 30), Decl("struct", "C", 140), Decl("enum", "E", 20)>>
    /\ HeaderLinesOf(dsfile.data) =
         <<HdrOpen("struct", "B"), HdrOpen("struct", "C"), HdrOpen("enum", "E")>>
    /\ orig.data = SubSeq(ExampleFile, 1, 430)

\* C4 witness: the example file has been split.
C4_Witness == Split /\ pre.data = ExampleFile /\ snap.orig = pre

\* C5: after a successful split, retained coordinator lines plus the lines of
\* all extracted declarations add up to the original line count.
C5_NoLineLost ==
  (Split /\ snap.orig = pre) =>
    RetainedCount(lines, data_structure_start) + TotalLines(data_structures)
      = Len(pre.data)

\* C6: every declaration emitted by extract_data_structures has as many '{' as
\* '}' over its lines, whatever the lines and the start index.
C6_EmittedBalanced ==
  \A k \in 1..Len(data_structures) : Balance(data_structures[k]) = 0

\* C6 witness: two declarations emitted and a third capture left open at the end.
C6_Witness ==
  /\ pc = "done"
  /\ Len(data_structures) >= 1
  /\ Len(HeaderLinesOf(lines)) > Len(data_structures)
  /\ \E k \in 1..Len(data_structures) : Len(data_structures[k]) >= 3

\* C7 as stated: after a successful split the declarations file and the
\* coordinator each hold as many '{' as '}'.
C7_BothBalanced ==
  Split => (Balance(dsfile.data) = 0 /\ Balance(orig.data) = 0)

\* C7 amended: the declarations file is off balance by exactly the braces of
\* the copied using lines (balanced when they hold none), and the coordinator
\* is balanced when the retained lines hold at least as many '{' as '}' and
\* keeps their surplus of '}' otherwise.
C7_BalancedUpToInput ==
  Split =>
    LET r == Balance(SubSeq(lines, 1, RetainedCount(lines, data_structure_start)))
    IN /\ Balance(dsfile.data) = Balance(using_statements)
       /\ Balance(orig.data) = (IF r >= 0 THEN 0 ELSE r)

\* C7 witness: a split whose retained lines were two braces short, closed by two
\* synthetic lines.
C7_Witness ==
  /\ Split
  /\ Balance(SubSeq(lines, 1, RetainedCount(lines, data_structure_start))) = 2
  /\ Balance(orig.data) = 0

\* Number of violations recorded for line number n of the scanned file.
ViolationsOnLine(n) ==
  Cardinality({k \in 1..Len(violations) : violations[k].line = n})

\* C8: every scanned line has at most one recorded violation, whichever scanner
\* runs and however many catalog patterns the line matches.
C8_AtMostOnePerLine ==
  \A n \in 1..Len(scan_lines) : ViolationsOnLine(n) <= 1

\* The path contains an entry of the running scanner's exemption set.
PathIsExempt == \E e \in ExemptionEntries(scanner) : PathContains(scan_path, e)

\* C9: a file whose path contains an entry of the scanner's exemption set gets
\* no violation, whatever its lines hold.
C9_ExemptFileNoViolation == PathIsExempt => violations = <<>>

\* C9 witness: check_anti_patterns has gone through both lines of an exempt
\* file, each of which it reports in a file that is not exempt.
C9_Witness ==
  /\ scanner = "anti_patterns" /\ scan_pc = "done" /\ PathIsExempt
  /\ line_num = 2
  /\ \A n \in 1..2 : LineViolations(scanner, PlainPath, scan_lines, n) # <<>>

\* The line holds one of the marker phrases, in any letter-casing.
HasMarkerAnyCase(line) ==
  \E m \in FallbackIndicators : Contains(Lower(line), <<LowerTok(m)>>)

\* C10: check_resources_load_violations reports no line that has a line holding
\* a marker phrase, in any letter-casing, among the 5 lines before it.
C10_MarkerBeforeSuppresses ==
  scanner = "resources_load" =>
    \A k \in 1..Len(violations) :
      \A j \in Max2(1, violations[k].line - ContextLines)..(violations[k].line - 1) :
        ~HasMarkerAnyCase(scan_lines[j])

\* The scanned line has an inline comment marker after some code.
HasInlineComment(line) ==
  /\ \E j \in 1..Len(line) : IsCommentTok(line[j])
  /\ Strip(BeforeComment(Strip(line))) # <<>>

\* C11: every violation recorded for a line that holds '//' after some code is
\* for a pattern that occurs in the text before the first '//'; a pattern that
\* occurs only in the comment part is never recorded, whichever scanner runs.
C11_CommentPartIgnored ==
  \A k \in 1..Len(violations) :
    LET line == scan_lines[violations[k].line] IN
      HasInlineComment(line) =>
        Search(PatternsOf(scanner)[violations[k].pattern],
               Strip(BeforeComment(Strip(line))))

\* The first non-whitespace characters of the line are '//', '///' or '*'.
IsCommentOnly(line) ==
  \/ StartsWith(Strip(line), <<"//">>)
  \/ StartsWith(Strip(line), <<"///">>)
  \/ StartsWith(Strip(line), <<"*">>)

\* C12: no scanner records a violation for a line whose first non-whitespace
\* characters are a comment marker, whatever banned pattern text follows it.
C12_CommentOnlyNeverReported ==
  \A k \in 1..Len(violations) : ~IsCommentOnly(scan_lines[violations[k].line])

\* C12 witness: a scanner has gone through a file that is not exempt and holds
\* a '*' line and a '///' line with banned pattern text, and recorded nothing.
C12_Witness ==
  /\ scan_pc = "done" /\ ~FileExempt(scanner, scan_path)
  /\ line_num = Len(scan_lines) /\ violations = <<>>
  /\ \E n \in 1..Len(scan_lines) :
       /\ StartsWith(Strip(scan_lines[n]), <<"*">>)
       /\ PatternLoop(PatternsOf(scanner), scan_lines[n]) # <<>>
  /\ \E n \in 1..Len(scan_lines) :
       /\ StartsWith(Strip(scan_lines[n]), <<"///">>)
       /\ PatternLoop(PatternsOf(scanner), scan_lines[n]) # <<>>

SevRank(sev) ==
  CASE sev = "LOW" -> 0 [] sev = "MEDIUM" -> 1 [] sev = "HIGH" -> 2
    [] sev = "CRITICAL" -> 3

\* The tier `sev` is the documented one for `count` lines against `budget`
\* (budget/2 <= e and budget/4 <= e written without fractions), and no smaller
\* count above the budget gets a higher tier.
TierAsDocumented(sev, count, budget) ==
  LET e == count - budget IN
    /\ (sev = "CRITICAL") <=> (e >= budget)
    /\ (sev = "HIGH") <=> (budget <= 2 * e /\ e < budget)
    /\ (sev = "MEDIUM") <=> (budget <= 4 * e /\ 2 * e < budget)
    /\ (sev = "LOW") <=> (4 * e < budget)
    /\ \A c \in (budget + 1)..count :
         SevRank(calculate_severity(c, budget)) <= SevRank(sev)

\* C13: calculate_severity(count, budget) for count > budget > 0 returns the
\* documented tier, the boundary excesses budget/4, budget/2 and budget map to
\* MEDIUM, HIGH and CRITICAL, and the tier never decreases as count grows; for
\* direct calls and for the severity of every recorded size violation.
C13_SeverityTiers ==
  /\ (size_pc = "done" /\ sev_call # <<>>) =>
       TierAsDocumented(severity, sev_call[1], sev_call[2])
  /\ \A k \in 1..Len(size_violations) :
       TierAsDocumented(size_violations[k].severity, size_violations[k].lines,
                        size_violations[k].limit)

\* C13 witness: a call whose excess is exactly a quarter of the limit returned
\* MEDIUM.
C13_Witness ==
  /\ size_pc = "done" /\ sev_call # <<>>
  /\ 4 * (sev_call[1] - sev_call[2]) = sev_call[2]
  /\ severity = "MEDIUM"

\* The file was read by the size check: not left out by name and readable.
SizeScanned(f) == f.readable /\ ~SizeFileSkipped(f.path)

\* The budget the documented table gives the file's subsystem.
BudgetOf(f) == LimitOf(determine_system_type(f.path))

\* C14: the size check records one violation for each file it read whose line
\* count is above its budget and none for the others; a file at its budget
\* gets none, a file one line above gets one with excess 1 and severity LOW.
C14_OneViolationIffOverBudget ==
  /\ Len(size_violations) =
       Cardinality({i \in 1..file_idx :
                      SizeScanned(cs_files[i])
                        /\ cs_files[i].line_count > BudgetOf(cs_files[i])})
  /\ \A i \in 1..file_idx :
       LET f == cs_files[i]
           mine == {k \in 1..Len(size_violations) :
                      /\ size_violations[k].file = f.path
                      /\ size_violations[k].lines = f.line_count}
       IN SizeScanned(f) =>
            /\ f.line_count <= BudgetOf(f) => mine = {}
            /\ f.line_count = BudgetOf(f) + 1 =>
                 \E k \in mine : /\ size_violations[k].excess = 1
                                 /\ size_violations[k].severity = "LOW"

\* C14 witness: a file at its budget and a file one line above it have been
\* checked, and there is exactly one violation.
C14_Witness ==
  /\ size_pc = "done"
  /\ cs_files = <<SizeFile(PlainSizePath, 500, TRUE), LowFile>>
  /\ Len(size_violations) = 1

\* The subsystem of the first marker, in the documented order, that occurs in
\* the path between two '/'.
MarkerOrder ==
  <<{"core"}, {"systems"}, {"data"}, {"ui"}, {"testing", "tests"}, {"editor"}>>

SystemNames == <<"Core", "Systems", "Data", "UI", "Testing", "Editor">>

FirstMarkerSystem(path_parts) ==
  LET hits == {k \in 1..Len(MarkerOrder) :
                 \E m \in MarkerOrder[k] : MarkerIn(path_parts, m)}
  IN IF hits = {} THEN "Unknown" ELSE SystemNames[Min(hits)]

DocumentedBudget(sys) == IF sys = "Testing" THEN 600 ELSE 500

\* C15: every file read is judged against the budget of the subsystem of the
\* first marker, in the order core, systems, data, ui, testing/tests, editor,
\* that occurs in its path (500 when none does), and every violation names that
\* subsystem and that budget.
C15_FirstMarkerDecides ==
  /\ \A k \in 1..Len(size_violations) :
       /\ size_violations[k].system = FirstMarkerSystem(size_violations[k].file)
       /\ size_violations[k].limit =
            DocumentedBudget(size_violations[k].system)
  /\ \A i \in 1..file_idx :
       SizeScanned(cs_files[i]) =>
         ((\E k \in 1..Len(size_violations) :
             /\ size_violations[k].file = cs_files[i].path
             /\ size_violations[k].lines = cs_files[i].line_count)
          <=> cs_files[i].line_count >
                DocumentedBudget(FirstMarkerSystem(cs_files[i].path)))

\* C15 witness: a 600-line file below .../Testing/Core/ was recorded as a Core
\* file over the 500 budget.
C15_Witness ==
  /\ size_pc = "done"
  /\ cs_files = <<SizeFile(<<"Assets", "ProjectChimera", "Testing", "Core",
                             "Plant.cs">>, 600, TRUE)>>
  /\ Len(size_violations) = 1
  /\ size_violations[1].system = "Core" /\ size_violations[1].limit = 500

\* C16: the size check's main returns 1 exactly when some violation is
\* CRITICAL and 0 otherwise, however many violations there are.
C16_ExitOneIffCritical ==
  (size_pc = "done" /\ sev_call = <<>>) =>
    /\ exit_status \in {0, 1}
    /\ exit_status = 1 <=>
         \E k \in 1..Len(size_violations) :
           size_violations[k].severity = "CRITICAL"

\* C16 witness: more violations than the ceiling, none of them critical, and
\* main returned 0.
C16_Witness ==
  /\ size_pc = "done"
  /\ Len(size_violations) > ViolationCeiling
  /\ \A k \in 1..Len(size_violations) : size_violations[k].severity # "CRITICAL"
  /\ exit_status = 0

\* One of the skip conditions holds for the entry: the file is missing, or it
\* can be read and is too small, already has a backup, or has no header line
\* at or after the cutoff.
SkipCondition(f) ==
  \/ ~f.orig.exists
  \/ /\ f.readable
     /\ \/ Len(f.orig.data) < SizeThreshold
        \/ f.backup.exists
        \/ \A i \in (MinLine + 1)..Len(f.orig.data) : ~IsHeaderLine(f.orig.data[i])

\* C17: main takes every file of the work list once, in list order; a file
\* whose processing raised is counted as skipped and the files after it are
\* still processed; refactored_count + skipped_count is the number of files
\* taken so far, hence the length of the list at the end; a skip condition
\* gives a False result, never an exception.
C17_BatchCountsEveryFile ==
  /\ Len(outcomes) = batch_idx
  /\ \A k \in 1..Len(outcomes) : outcomes[k].index = k
  /\ refactored_count + skipped_count = batch_idx
  /\ refactored_count =
       Cardinality({k \in 1..Len(outcomes) : outcomes[k].result = "True"})
  /\ batch_pc = "done" => refactored_count + skipped_count = Len(batch_files)
  /\ \A k \in 1..Len(outcomes) :
       /\ SkipCondition(outcomes[k].before) => outcomes[k].result = "False"
       /\ outcomes[k].result = "error" =>
            (outcomes[k].before.orig.exists /\ ~outcomes[k].before.readable)

\* C17 witness: the first file could not be read, the second was split, and
\* main ended with one file counted on each side.
C17_Witness ==
  /\ batch_pc = "done"
  /\ Len(outcomes) = 2
  /\ outcomes[1].result = "error" /\ outcomes[2].result = "True"
  /\ refactored_count = 1 /\ skipped_count = 1

\* C18: a run on a file with at most 500 lines (exactly 500 included) that is
\* not interrupted ends in the skip "too small" and leaves the file as it was.
C18_AtBudgetSkipped ==
  (/\ pc = "done" /\ result # "error"
   /\ snap.orig.exists /\ Len(snap.orig.data) <= SizeThreshold)
    => (result = "False" /\ reason = "too small" /\ orig = snap.orig)

\* C19: every emitted declaration holds an opening brace, and the running
\* brace depth over its lines, once an opening brace has been counted, is zero
\* at its last line and at no line before it.
C19_CaptureEndsAtDepthZero ==
  \A k \in 1..Len(data_structures) :
    LET d == data_structures[k] IN
      /\ \E j \in 1..Len(d) : Count(d[j], "{") > 0
      /\ \A j \in 1..(Len(d) - 1) :
           (\E i \in 1..j : Count(d[i], "{") > 0) => Balance(SubSeq(d, 1, j)) # 0

\* The runs of lines of `ls` that start at the first header line at or after
\* position `from` and have the lengths `sizes`, each next run starting at the
\* first header line after the one before.
RECURSIVE RunsFrom(_, _, _)
RunsFrom(ls, from, sizes) ==
  LET hs == {i \in from..Len(ls) : IsHeaderLine(ls[i])} IN
    IF sizes = <<>> \/ hs = {} THEN <<>>
    ELSE <<[first |-> Min(hs), last |-> Min(hs) + Head(sizes) - 1]>>
         \o RunsFrom(ls, Min(hs) + Head(sizes), Tail(sizes))

\* C20: the extracted declarations are disjoint contiguous runs of original
\* lines in increasing order, each starting at the first header line that
\* follows the run before it (a header line inside a run starts nothing), and
\* the declarations file ends with the namespace line, '{', the declarations
\* in that order, each followed by an empty line, and one '}'.
C20_RunsInOrderVerbatim ==
  Split =>
    LET runs == RunsFrom(lines, data_structure_start + 1,
                         [k \in 1..Len(data_structures) |->
                            Len(data_structures[k])])
        body == Flatten([k \in 1..Len(data_structures) |->
                           Append(data_structures[k], <<>>)])
        n == Len(dsfile.data)
    IN /\ Len(runs) = Len(data_structures)
       /\ \A k \in 1..Len(runs) :
            /\ runs[k].last <= Len(lines)
            /\ data_structures[k] = SubSeq(lines, runs[k].first, runs[k].last)
       /\ n >= Len(body) + 3
       /\ dsfile.data[n] = <<"}">>
       /\ SubSeq(dsfile.data, n - Len(body), n - 1) = body
       /\ dsfile.data[n - Len(body) - 1] = <<"{">>
       /\ dsfile.data[n - Len(body) - 2] = <<"namespace", " ">> \o namespace

\* C20 witness: a declaration that starts after the start index and holds a
\* second header line has been extracted and written.
C20_Witness ==
  /\ pc = "done"
  /\ Len(data_structures) = 1
  /\ Len(HeaderLinesOf(data_structures[1])) = 2
  /\ data_structure_start = 0 /\ ~IsHeaderLine(lines[1])

\* The line holds a phrase of the indicator list as the function tests it.
LineHasIndicator(line) ==
  \E indicator \in FallbackIndicators :
    Contains(Lower(Strip(line)), <<indicator>>)

\* A line with an indicator lies at most `dist` lines before or after line n.
IndicatorWithin(n, dist) ==
  \E j \in Max2(1, n - dist)..Min2(Len(scan_lines), n + dist) :
    LineHasIndicator(scan_lines[j])

\* C21: check_resources_load_violations leaves a Resources.Load line unreported
\* exactly when a line among the 5 before it and the 5 after it holds an
\* indicator phrase: a phrase 5 lines after suppresses, one 6 lines away in
\* either direction does not.
C21_SymmetricWindow ==
  scanner = "resources_load" =>
    \A n \in 1..line_num :
      scan_lines[n] \in CandidateLines =>
        (ViolationsOnLine(n) = 0 <=> IndicatorWithin(n, ContextLines))

\* The coordinator that keeps lines 0 .. s-1 of `content` and appends one
\* closing line for each brace those lines leave open.
PrefixWithClosers(content, s) ==
  LET kept == SubSeq(content, 1, s)
  IN kept \o Rep(CloserLine, Max2(0, Balance(kept)))

\* C22: after a successful split the original holds exactly the lines before
\* the header of the first captured declaration, unchanged and in order,
\* followed by max(0, r) synthetic closing lines, r being the '{' minus '}' of
\* those lines.
C22_CoordinatorIsPrefixPlusClosers ==
  Split =>
    \E s \in 0..(Len(snap.orig.data) - 1) :
      /\ IsHeaderLine(At(snap.orig.data, s))
      /\ SubSeq(snap.orig.data, s + 1, s + Len(data_structures[1]))
           = data_structures[1]
      /\ \A i \in MinLine..(s - 1) : ~IsHeaderLine(At(snap.orig.data, i))
      /\ orig.data = PrefixWithClosers(snap.orig.data, s)

\* C22 witness: a split at index 401 whose retained lines left two braces open,
\* closed by two synthetic lines.
C22_Witness ==
  /\ Split
  /\ data_structure_start = MinLine + 1
  /\ Len(orig.data) = data_structure_start + 2
  /\ orig.data[Len(orig.data) - 1] = CloserLine
  /\ orig.data[Len(orig.data)] = CloserLine
  /\ SubSeq(orig.data, 1, data_structure_start)
       = SubSeq(snap.orig.data, 1, data_structure_start)

\* Indices (0-based) of the header lines of `content` at or after the cutoff.
HeadersFromCutoff(content) ==
  {i \in MinLine..(Len(content) - 1) : IsHeaderLine(At(content, i))}

\* C23: the start index found is the smallest index >= 400 of a header line,
\* and None is found exactly when there is no such line; after a split the
\* first 400 lines of the original are still in place and every extracted
\* declaration is a run of lines with indices >= 400.
C23_StartAtOrAfterCutoff ==
  /\ data_structure_start # None =>
       /\ HeadersFromCutoff(lines) # {}
       /\ data_structure_start = Min(HeadersFromCutoff(lines))
  /\ (Skipped /\ reason = "no structure found") =>
       HeadersFromCutoff(snap.orig.data) = {}
  /\ Split =>
       /\ SubSeq(orig.data, 1, MinLine) = SubSeq(snap.orig.data, 1, MinLine)
       /\ LET runs == RunsFrom(snap.orig.data, MinLine + 1,
                               [k \in 1..Len(data_structures) |->
                                  Len(data_structures[k])])
          IN /\ Len(runs) = Len(data_structures)
             /\ \A k \in 1..Len(runs) :
                  data_structures[k] =
                    SubSeq(snap.orig.data, runs[k].first, runs[k].last)

\* C23 witness: a file with a header line at index 399 was split at a later
\* header, and the line at index 399 stayed in the coordinator.
C23_Witness ==
  /\ Split
  /\ IsHeaderLine(At(snap.orig.data, MinLine - 1))
  /\ data_structure_start > MinLine
  /\ At(orig.data, MinLine - 1) = At(snap.orig.data, MinLine - 1)

\* C24: a run that starts with the complete backup of the pre-split original in
\* place (left by a run interrupted after the copy, or by a finished split)
\* writes no file and ends, unless interrupted itself, in the skip "too small"
\* or "already split", so a partly written coordinator is never repaired and
\* the backup stays equal to the pre-split original; a run that starts after an
\* interruption between the writing of the declarations file and the creation
\* of the backup finds the original unmodified and splits it.
C24_InterruptedSplitNeverRepaired ==
  /\ (run >= 2 /\ pre.exists /\ snap.backup = pre) =>
       /\ FilesAsAtStart
       /\ pc = "done" =>
            /\ result \in {"False", "error"}
            /\ result = "False" => reason \in {"too small", "already split"}
  /\ (/\ run >= 2 /\ pc = "done" /\ result # "error"
      /\ ~snap.backup.exists
      /\ snap.dsfile.exists /\ snap.dsfile.data # <<LCode>>) =>
       (snap.orig = pre /\ result = "True")

\* C24 witness: the second run was skipped as too small on a coordinator that
\* the interrupted first run had written only in part, the backup being intact.
C24_Witness ==
  /\ run = 2 /\ Skipped /\ reason = "too small"
  /\ pre.exists /\ backup = pre
  /\ orig.exists /\ Len(orig.data) < MinLine
  /\ orig.data = SubSeq(pre.data, 1, Len(orig.data))

\* The line ends in an inline comment '// Legacy' or '// MIGRATION'.
HasMarkerComment(line) ==
  \/ Contains(line, <<"//", " ", "Legacy">>)
  \/ Contains(line, <<"//", " ", "MIGRATION">>)

\* C25: check_anti_patterns records no violation for a line that uses
\* Resources.Load and carries a '// Legacy' or '// MIGRATION' comment, in
\* whatever file the line is.
C25_MarkerCommentSuppresses ==
  scanner = "anti_patterns" =>
    \A k \in 1..Len(violations) :
      LET line == scan_lines[violations[k].line] IN
        ~(Contains(line, <<"Resources", ".", "Load">>) /\ HasMarkerComment(line))

====
